---- MODULE Spec2Model ----
(***************************************************************************)
(* State-machine model of the "Another World" interpreter core:            *)
(*   - the resource pager (src/src/mem.rs),                                 *)
(*   - the task VM and its scheduler (src/src/script.rs),                   *)
(*   - the frame loop (src/src/main.rs).                                    *)
(* The whole `Game` aggregate is the record g; every Rust function          *)
(* `fn f(g: &mut Game, ..)` is an operator f(g, ..) that yields the Game    *)
(* after the call.  A panic (assert!, unwrap, index out of range) is kept   *)
(* in g.fault; a state with g.fault # "none" is the state at the abort.     *)
(***************************************************************************)
EXTENDS Integers, Sequences, FiniteSets, TLC

VARIABLES
    g,      \* the Game aggregate (main.rs: struct Game)
    loc,    \* position of the main thread: "boot", "stage", "input", "run", "exec", "quit"
    id,     \* loop variable of run_tasks (`for id in 0..TASK_COUNT`)
    frame,  \* number of run_frame calls started so far
    ran,    \* history: slot ids given a slice in the current frame, in order
    snap,   \* history: the live task table as run_tasks found it this frame
    inst,   \* history: install-task executed per slot in this and the previous frame
    prog,   \* input: the scene to start, memlist.bin and each part's bytecode
    build,  \* input: "debug" (overflow checks on) or "release" (wrapping)
    ctx,    \* the bit unpacker at work (bytekiller.rs: struct Ctx), Idle otherwise
    snd     \* the music player, the ring to the host and the host's audio stream

vars == <<g, loc, id, frame, ran, snap, inst, prog, build, ctx, snd>>

----------------------------------------------------------------------------
(* Program constants *)

CALL_STACK_SIZE == 64
TASK_COUNT == 64
HALT_PC == 65535
PRE_HALT_PC == 65534

STATUS_EMPTY == 0
STATUS_READY == 1
STATUS_PENDING == 2
BITMAP == 2

DATA_SIZE == 1048576
DATA_BMP_OFFSET == DATA_SIZE - 2048 * 16

MEM_LIST_PARTS ==
    << <<20, 21, 22, 0>>,      \* 16000
       <<23, 24, 25, 0>>,      \* 16001
       <<26, 27, 28, 17>>,     \* 16002
       <<29, 30, 31, 17>>,     \* 16003
       <<32, 33, 34, 17>>,     \* 16004
       <<35, 36, 37, 0>>,      \* 16005
       <<38, 39, 40, 17>>,     \* 16006
       <<41, 42, 43, 17>>,     \* 16007
       <<125, 126, 127, 0>>,   \* 16008
       <<125, 126, 127, 0>>>>  \* 16009

\* Option::None for the Option<u16>/Option<i16>/Option<u8> fields
NONE == 65536

----------------------------------------------------------------------------
(* Bounds and input sets of the exploration *)

\* frames run by the main loop before the host asks to quit
MaxFrames == 3

\* part set-ups requested by update-resources when the pager is driven directly
MaxParts == 1

\* value of ctx and snd in the specifications that do not use them
Idle == [fault |-> "none"]

Min(a, b) == IF a < b THEN a ELSE b

\* u16 / i16 arithmetic
U16(x) == x % 65536
ToI16(x) == LET u == x % 65536 IN IF u >= 32768 THEN u - 65536 ELSE u

\* indices of memlist.bin present in the model: three free resources
\* (a sound, a music, a bitmap), the shared second video bank and the
\* entries named by MEM_LIST_PARTS
EntryIds == {1, 2, 3, 17} \cup (20..43) \cup (125..127)

\* unpacked sizes used for the entries of memlist.bin
PartSize == 65536
ResSize == 262144

\* kind of an entry by its role: 3 palette, 4 bytecode, 5 and 6 video
KindOf(i) ==
    IF i = 1 THEN 0
    ELSE IF i = 2 THEN 1
    ELSE IF i = 3 THEN BITMAP
    ELSE IF i = 17 THEN 6
    ELSE IF i >= 125 THEN 3 + (i - 125)
    ELSE 3 + ((i - 20) % 3)

\* One memlist.bin.  bank0: an entry stored with bank_num 0 (0: none);
\* big: an entry whose unpacked size is the whole growing region (0: none);
\* odd: an entry stored with kind `oddkind` instead of the kind of its
\* role (0: none);  nul: an entry of unpacked size 0 (0: none).
MkList(bank0, big, odd, oddkind, nul) ==
    [i \in EntryIds |->
        [status |-> STATUS_EMPTY,
         kind |-> IF i = odd THEN oddkind ELSE KindOf(i),
         address |-> 0,
         rank_num |-> IF i = 17 THEN 1 ELSE IF i \in {1, 2, 3} THEN i ELSE 3 + (i % 4),
         bank_num |-> IF i = bank0 THEN 0 ELSE 1 + (i % 13),
         unpacked_size |-> IF i = big THEN DATA_BMP_OFFSET
                           ELSE IF i = nul THEN 0
                           ELSE IF i = 3 THEN 32000
                           ELSE IF i \in {1, 2} THEN ResSize
                           ELSE PartSize]]

MemLists ==
    {MkList(0, 0, 0, 0, 0), MkList(24, 0, 0, 0, 0), MkList(1, 0, 0, 0, 0),
     MkList(1, 1, 0, 0, 0), MkList(0, 2, 0, 0, 0), MkList(0, 0, 23, 1, 0),
     MkList(0, 0, 25, BITMAP, 0), MkList(0, 0, 0, 0, 24), MkList(0, 26, 0, 0, 0),
     MkList(23, 0, 0, 0, 0), MkList(0, 0, 0, 0, 23)}

----------------------------------------------------------------------------
(* Construction: main.rs Game { .. } *)

NewTask == [pc |-> HALT_PC, frozen |-> FALSE]

NewVm ==
    [regs |-> [r \in 0..255 |->
                  IF r = 188 THEN 16
                  ELSE IF r = 198 THEN 128
                  ELSE IF r = 242 THEN 4000
                  ELSE IF r = 220 THEN 33
                  ELSE 0],
     call_stack |-> [i \in 0..(CALL_STACK_SIZE - 1) |-> 0],
     pc |-> 0,
     sp |-> 0,
     tasks |-> [i \in 0..(TASK_COUNT - 1) |-> NewTask],
     pending_tasks |-> [i \in 0..(TASK_COUNT - 1) |-> NewTask],
     needs_yield |-> FALSE]

NewMemory(list) ==
    [list |-> list,
     data_bak |-> 0,
     data_cur |-> 0,
     seg_code |-> 0,
     seg_video_pal |-> 0,
     seg_video1 |-> 0,
     seg_video2 |-> 0,
     \* the bytes of `data` that are not 0, by address
     data |-> <<>>]

\* soft::State::new: one of the four framebuffers.  bitmap: the entry whose
\* image draw_bitmap copied into it last (0: none, the buffer was all 0);
\* px: the runs of pixels written since, oldest first, each from offset
\* `at` = y * 320 + x on and w pixels long
NewFb == [bitmap |-> 0, px |-> <<>>]

NewVideoContext ==
    [rndr |-> [fb |-> [k \in 0..3 |-> NewFb]],
     fb_xlat |-> <<2, 2, 1>>,
     dc |-> 0,
     use_seg2 |-> FALSE,
     current_pal_num |-> NONE,
     needs_pal_fixup |-> TRUE]

\* sfx.rs: Channel::default(), Player::default()
NewChannel ==
    [sample_address |-> 0, sample_len |-> 0, sample_loop_pos |-> 0,
     sample_loop_len |-> 0, volume |-> 0, pos |-> [inc |-> 0, offset |-> 0]]

NewPlayer ==
    [delay |-> 0,
     samples_left |-> 0,
     channels |-> [c \in 0..3 |-> NewChannel],
     track |-> [address |-> 0, cur_pos |-> 0, cur_order |-> 0, num_order |-> 0,
                order_table |-> [i \in 0..127 |-> 0],
                samples |-> [i \in 0..14 |-> [address |-> 0, volume |-> 0]]]]

\* host.rs, Host::new: the ring between the VM thread and the audio callback
\* (rb::SpscRb), as the number of samples ever written to and read from it
HOST_RATE == 44100
MUSIC_SAMPLES_PER_FRAME == (HOST_RATE \div 50) * 2
MUSIC_BUFFER_LEN == MUSIC_SAMPLES_PER_FRAME * 8

NewHost == [music_chan |-> [wr |-> 0, rd |-> 0]]

NewInput ==
    [last_char |-> NONE, right |-> FALSE, left |-> FALSE,
     down |-> FALSE, up |-> FALSE, button |-> FALSE]

NewGame(list) ==
    [mem |-> NewMemory(list),
     vm |-> NewVm,
     video |-> NewVideoContext,
     current_part |-> 0,
     next_part |-> NONE,
     screen_num |-> NONE,
     next_pal |-> NONE,
     looping_gun_quirk |-> FALSE,
     bypass_protection |-> TRUE,
     music |-> NewPlayer,
     host |-> NewHost,
     input |-> NewInput,
     \* bookkeeping of the model, not fields of Game
     fault |-> "none",   \* panic message of the abort, "none" while running
     io |-> <<>>,        \* read_bank calls of the latest operation: <<num, address>>
     used |-> <<>>,      \* addresses the latest operation handed to the audio
                         \* code: <<"sound" or "music", num, address>>
     ovf |-> FALSE]      \* the latest instruction fetch stepped pc past 0xFFFF

panic(gg, why) == [gg EXCEPT !.fault = why]

----------------------------------------------------------------------------
(* Resource pager: src/src/mem.rs *)

Pending(gg) == {i \in EntryIds : gg.mem.list[i].status = STATUS_PENDING}

\* the Pending entry of the smallest rank_num instead
MinByRank(gg) ==
    LET p == Pending(gg)
        low == {i \in p : \A j \in p : gg.mem.list[i].rank_num <= gg.mem.list[j].rank_num}
    IN CHOOSE i \in low : \A j \in low : j <= i

\* Iterator::max_by_key over the Pending entries: the largest rank_num, the
\* last one in list order among equals
MaxByRank(gg) ==
    LET p == Pending(gg)
        top == {i \in p : \A j \in p : gg.mem.list[j].rank_num <= gg.mem.list[i].rank_num}
    IN CHOOSE i \in top : \A j \in top : j <= i

\* copy_bitmap: the planar image that read_bank left at DATA_BMP_OFFSET for
\* entry num, converted and stored as framebuffer 0 (soft::draw_bitmap)
copy_bitmap(v, num) == [v EXCEPT !.rndr.fb[0] = [bitmap |-> num, px |-> <<>>]]

\* read_bank: the file read into data[address..]; the slicing of dst panics
\* when the entry does not fit below DATA_SIZE
read_bank(gg, num, address) ==
    IF gg.mem.list[num].unpacked_size > DATA_SIZE - address
    THEN panic(gg, "range end index out of range")
    ELSE [gg EXCEPT !.io = Append(@, <<num, address>>)]

\* load_entries that reads an entry of bank 0 like any other
RECURSIVE load_entries_ReadsBank0(_)
load_entries_ReadsBank0(gg) ==
    IF Pending(gg) = {} \/ gg.fault # "none" THEN gg
    ELSE
        LET num == MaxByRank(gg)
            entry == gg.mem.list[num]
            address == IF entry.kind = BITMAP THEN DATA_BMP_OFFSET ELSE gg.mem.data_cur
        IN  IF entry.kind # BITMAP /\ ~(entry.unpacked_size <= DATA_BMP_OFFSET - gg.mem.data_cur)
            THEN panic(gg, "assertion failed: unpacked_size <= DATA_BMP_OFFSET - data_cur")
            ELSE
                LET g1 == read_bank(gg, num, address)
                IN  IF g1.fault # "none" THEN g1
                    ELSE IF entry.kind = BITMAP
                    THEN load_entries_ReadsBank0(
                            [g1 EXCEPT !.video = copy_bitmap(@, num),
                                       !.mem.list[num].status = STATUS_EMPTY])
                    ELSE load_entries_ReadsBank0(
                            [g1 EXCEPT !.mem.list[num].address = address,
                                       !.mem.list[num].status = STATUS_READY,
                                       !.mem.data_cur = @ + entry.unpacked_size])

\* load_entries without the arena assertion
RECURSIVE load_entries_Unchecked(_)
load_entries_Unchecked(gg) ==
    IF Pending(gg) = {} \/ gg.fault # "none" THEN gg
    ELSE
        LET num == MaxByRank(gg)
            entry == gg.mem.list[num]
            address == IF entry.kind = BITMAP THEN DATA_BMP_OFFSET ELSE gg.mem.data_cur
        IN  IF entry.bank_num = 0
            THEN load_entries_Unchecked([gg EXCEPT !.mem.list[num].status = STATUS_EMPTY])
            ELSE
                LET g1 == read_bank(gg, num, address)
                IN  IF g1.fault # "none" THEN g1
                    ELSE IF entry.kind = BITMAP
                    THEN load_entries_Unchecked(
                            [g1 EXCEPT !.video = copy_bitmap(@, num),
                                       !.mem.list[num].status = STATUS_EMPTY])
                    ELSE load_entries_Unchecked(
                            [g1 EXCEPT !.mem.list[num].address = address,
                                       !.mem.list[num].status = STATUS_READY,
                                       !.mem.data_cur = @ + entry.unpacked_size])

\* load_entries: one turn of the `while let` loop, on the Pending entry that
\* max_by_key picked
load_one_Bank0Ready(gg) ==
    LET num == MaxByRank(gg)
        entry == gg.mem.list[num]
        address == IF entry.kind = BITMAP THEN DATA_BMP_OFFSET ELSE gg.mem.data_cur
    IN  IF entry.kind # BITMAP /\ ~(entry.unpacked_size <= DATA_BMP_OFFSET - gg.mem.data_cur)
        THEN panic(gg, "assertion failed: unpacked_size <= DATA_BMP_OFFSET - data_cur")
        ELSE IF entry.bank_num = 0
        THEN [gg EXCEPT !.mem.list[num].status = STATUS_READY]
        ELSE
            LET g1 == read_bank(gg, num, address)
            IN  IF g1.fault # "none" THEN g1
                ELSE IF entry.kind = BITMAP
                THEN [g1 EXCEPT !.video = copy_bitmap(@, num),
                                !.mem.list[num].status = STATUS_EMPTY]
                ELSE [g1 EXCEPT !.mem.list[num].address = address,
                                !.mem.list[num].status = STATUS_READY,
                                !.mem.data_cur = @ + entry.unpacked_size]

\* the same keeping a bitmap in the arena like any other entry
load_one_BitmapStays(gg) ==
    LET num == MaxByRank(gg)
        entry == gg.mem.list[num]
        address == gg.mem.data_cur
    IN  IF ~(entry.unpacked_size <= DATA_BMP_OFFSET - gg.mem.data_cur)
        THEN panic(gg, "assertion failed: unpacked_size <= DATA_BMP_OFFSET - data_cur")
        ELSE IF entry.bank_num = 0
        THEN [gg EXCEPT !.mem.list[num].status = STATUS_EMPTY]
        ELSE
            LET g1 == read_bank(gg, num, address)
            IN  IF g1.fault # "none" THEN g1
                ELSE [g1 EXCEPT !.video = IF entry.kind = BITMAP
                                          THEN copy_bitmap(@, num) ELSE @,
                                !.mem.list[num].address = address,
                                !.mem.list[num].status = STATUS_READY,
                                !.mem.data_cur = @ + entry.unpacked_size]

load_one(gg) ==
    LET num == MaxByRank(gg)
        entry == gg.mem.list[num]
        address == IF entry.kind = BITMAP THEN DATA_BMP_OFFSET ELSE gg.mem.data_cur
    IN  IF entry.kind # BITMAP /\ ~(entry.unpacked_size <= DATA_BMP_OFFSET - gg.mem.data_cur)
        THEN panic(gg, "assertion failed: unpacked_size <= DATA_BMP_OFFSET - data_cur")
        ELSE IF entry.bank_num = 0
        THEN [gg EXCEPT !.mem.list[num].status = STATUS_EMPTY]
        ELSE
            LET g1 == read_bank(gg, num, address)
            IN  IF g1.fault # "none" THEN g1
                ELSE IF entry.kind = BITMAP
                THEN [g1 EXCEPT !.video = copy_bitmap(@, num),
                                !.mem.list[num].status = STATUS_EMPTY]
                ELSE [g1 EXCEPT !.mem.list[num].address = address,
                                !.mem.list[num].status = STATUS_READY,
                                !.mem.data_cur = @ + entry.unpacked_size]

RECURSIVE load_entries(_)
load_entries(gg) ==
    IF Pending(gg) = {} \/ gg.fault # "none" THEN gg
    ELSE load_entries(load_one(gg))

address_of_entry(m, index) == m.list[index].address

\* setup_part that moves the watermark only when the part changes
setup_part_KeepsBak(gg, part_id) ==
    IF gg.current_part # part_id
    THEN
        IF ~(16000 <= part_id /\ part_id <= 16009)
        THEN panic(gg, "invalid part")
        ELSE
            LET row == MEM_LIST_PARTS[part_id - 16000 + 1]
                marked == {row[k] : k \in 1..4} \ {0}
                g1 == [gg EXCEPT
                        !.mem.list = [i \in EntryIds |->
                            [@[i] EXCEPT !.status =
                                IF i \in marked THEN STATUS_PENDING ELSE STATUS_EMPTY]],
                        !.mem.data_cur = 0]
                g2 == load_entries(g1)
            IN  IF g2.fault # "none" THEN g2
                ELSE [g2 EXCEPT
                        !.mem.seg_video_pal = g2.mem.list[row[1]].address,
                        !.mem.seg_code = g2.mem.list[row[2]].address,
                        !.mem.seg_video1 = g2.mem.list[row[3]].address,
                        !.mem.seg_video2 =
                            IF row[4] # 0 THEN g2.mem.list[row[4]].address ELSE @,
                        !.current_part = part_id,
                        !.mem.data_bak = g2.mem.data_cur]
    ELSE gg

\* setup_part, part changing: the statements before the call of load_entries
mark_part(gg, part_id) ==
    LET row == MEM_LIST_PARTS[part_id - 16000 + 1]
        marked == {row[k] : k \in 1..4} \ {0}
    IN  [gg EXCEPT
            !.mem.list = [i \in EntryIds |->
                [@[i] EXCEPT !.status =
                    IF i \in marked THEN STATUS_PENDING ELSE STATUS_EMPTY]],
            !.mem.data_cur = 0]

\* setup_part, part changing: the statements after load_entries returned
finish_part(g2, part_id) ==
    LET row == MEM_LIST_PARTS[part_id - 16000 + 1]
        ipal == row[1]
        icod == row[2]
        ivd1 == row[3]
        ivd2 == row[4]
    IN  [g2 EXCEPT
            !.mem.seg_video_pal = address_of_entry(g2.mem, ipal),
            !.mem.seg_code = address_of_entry(g2.mem, icod),
            !.mem.seg_video1 = address_of_entry(g2.mem, ivd1),
            !.mem.seg_video2 =
                IF ivd2 # 0 THEN address_of_entry(g2.mem, ivd2) ELSE @,
            !.current_part = part_id,
            !.mem.data_bak = g2.mem.data_cur]

setup_part(gg, part_id) ==
    IF gg.current_part # part_id
    THEN
        IF ~(16000 <= part_id /\ part_id <= 16009)
        THEN panic(gg, "invalid part")
        ELSE
            LET g2 == load_entries(mark_part(gg, part_id))
            IN  IF g2.fault # "none" THEN g2
                ELSE finish_part(g2, part_id)
    ELSE [gg EXCEPT !.mem.data_bak = gg.mem.data_cur]

\* invalidate_res rewinding to the bottom of the arena
invalidate_res_ToZero(m) ==
    [m EXCEPT
        !.data_cur = 0,
        !.list = [i \in EntryIds |->
            IF @[i].kind <= 2 \/ @[i].kind > 6
            THEN [@[i] EXCEPT !.status = STATUS_EMPTY]
            ELSE @[i]]]

\* invalidate_res that empties the entries of the part too
invalidate_res_All(m) ==
    [m EXCEPT
        !.data_cur = m.data_bak,
        !.list = [i \in EntryIds |-> [@[i] EXCEPT !.status = STATUS_EMPTY]]]

invalidate_res(m) ==
    [m EXCEPT
        !.data_cur = m.data_bak,
        !.list = [i \in EntryIds |->
            IF @[i].kind <= 2 \/ @[i].kind > 6
            THEN [@[i] EXCEPT !.status = STATUS_EMPTY]
            ELSE @[i]]]

\* load_entry that marks the entry and leaves the reading to the next
\* part setup
load_entry_Deferred(gg, num) ==
    IF num \notin EntryIds THEN panic(gg, "index out of bounds")
    ELSE IF gg.mem.list[num].status = STATUS_EMPTY
    THEN [gg EXCEPT !.mem.list[num].status = STATUS_PENDING]
    ELSE gg

\* load_entry: the entry is marked for the loader
mark_entry(gg, num) == [gg EXCEPT !.mem.list[num].status = STATUS_PENDING]

\* load_entry that loads the entry whatever its status
load_entry_Always(gg, num) ==
    IF num \notin EntryIds THEN panic(gg, "index out of bounds")
    ELSE load_entries(mark_entry(gg, num))

load_entry(gg, num) ==
    IF num \notin EntryIds THEN panic(gg, "index out of bounds")
    ELSE IF gg.mem.list[num].status = STATUS_EMPTY
    THEN load_entries(mark_entry(gg, num))
    ELSE gg

----------------------------------------------------------------------------
(* Bit arithmetic on 16-bit values *)

Pow2(k) == IF k = 0 THEN 1 ELSE IF k = 1 THEN 2 ELSE IF k = 2 THEN 4
    ELSE IF k = 3 THEN 8 ELSE IF k = 4 THEN 16 ELSE IF k = 5 THEN 32
    ELSE IF k = 6 THEN 64 ELSE IF k = 7 THEN 128 ELSE IF k = 8 THEN 256
    ELSE IF k = 9 THEN 512 ELSE IF k = 10 THEN 1024 ELSE IF k = 11 THEN 2048
    ELSE IF k = 12 THEN 4096 ELSE IF k = 13 THEN 8192 ELSE IF k = 14 THEN 16384
    ELSE 32768

Bit(x, k) == ((x % 65536) \div Pow2(k)) % 2
Has(x, mask) == \E k \in 0..15 : Bit(mask, k) = 1 /\ Bit(x, k) = 1

RECURSIVE BitAndFrom(_, _, _)
BitAndFrom(a, b, k) ==
    IF k > 15 THEN 0 ELSE Bit(a, k) * Bit(b, k) * Pow2(k) + BitAndFrom(a, b, k + 1)
BitAnd(a, b) == BitAndFrom(a, b, 0)

RECURSIVE BitOrFrom(_, _, _)
BitOrFrom(a, b, k) ==
    IF k > 15 THEN 0
    ELSE (IF Bit(a, k) + Bit(b, k) > 0 THEN Pow2(k) ELSE 0) + BitOrFrom(a, b, k + 1)
BitOr(a, b) == BitOrFrom(a, b, 0)

----------------------------------------------------------------------------
(* Bit unpacker: src/src/bytekiller.rs.  A u32 is kept as its two 16-bit
   halves [hi, lo]; a usize that wrapped below 0 is kept as the negative
   number, which no index or range of a slice accepts. *)

RECURSIVE BitXorFrom(_, _, _)
BitXorFrom(a, b, k) ==
    IF k > 15 THEN 0
    ELSE ((Bit(a, k) + Bit(b, k)) % 2) * Pow2(k) + BitXorFrom(a, b, k + 1)
BitXor(a, b) == BitXorFrom(a, b, 0)

Xor32(a, b) == [hi |-> BitXor(a.hi, b.hi), lo |-> BitXor(a.lo, b.lo)]
Zero32 == [hi |-> 0, lo |-> 0]

BufLen(buf) == Cardinality(DOMAIN buf)

\* BE::read_u32(&buf[pos..]) and whether its slicing and read succeed
ReadOk(buf, pos) == pos >= 0 /\ pos + 4 <= BufLen(buf)
read_u32(buf, pos) ==
    [hi |-> buf[pos] * 256 + buf[pos + 1], lo |-> buf[pos + 2] * 256 + buf[pos + 3]]

cpanic(c, why) == [c EXCEPT !.fault = why]

\* `a - b` on usize: the overflow check of a debug build, the slice index
\* check of a release build
SubPanic == IF build = "debug" THEN "attempt to subtract with overflow"
            ELSE "index out of bounds"

adjust_len(c, count) ==
    IF c.len >= count
    THEN [c |-> [c EXCEPT !.len = @ - count], count |-> count]
    ELSE [c |-> [c EXCEPT !.len = 0], count |-> count - c.len]

next_bit(c) ==
    LET carry == c.bits.lo % 2
        b1 == [hi |-> c.bits.hi \div 2, lo |-> (c.bits.hi % 2) * 32768 + c.bits.lo \div 2]
    IN  IF b1 # Zero32 THEN [c |-> [c EXCEPT !.bits = b1], bit |-> carry]
        ELSE IF ~ReadOk(c.buf, c.src_pos)
        THEN [c |-> cpanic(c, "range start index out of range"), bit |-> 0]
        ELSE
            LET w == read_u32(c.buf, c.src_pos)
            IN  [c |-> [c EXCEPT
                        !.src_pos = @ - 4,
                        !.crc = Xor32(@, w),
                        !.bits = [hi |-> 32768 + w.hi \div 2,
                                  lo |-> (w.hi % 2) * 32768 + w.lo \div 2]],
                 bit |-> w.lo % 2]

\* F applied to the value of v
Bind(v, F(_)) == CHOOSE y \in {F(x) : x \in {v}} : TRUE

\* rdd1bits: the loop from iteration `count` down, `output` so far
RECURSIVE rdd1bits_from(_, _, _)
rdd1bits_from(c, count, output) ==
    IF count = 0 \/ c.fault # "none" THEN [c |-> c, out |-> output]
    ELSE Bind(next_bit(c), LAMBDA n : rdd1bits_from(n.c, count - 1, output * 2 + n.bit))

rdd1bits(c, count) == rdd1bits_from(c, count, 0)

\* the check of buf[dst_pos - i]
IndexFault(c, i) ==
    IF c.dst_pos >= 0 /\ c.dst_pos - i < 0 THEN SubPanic
    ELSE IF c.dst_pos < 0 \/ c.dst_pos - i >= BufLen(c.buf) THEN "index out of bounds"
    ELSE "none"

\* getd3chr: the copy loop from iteration i on
RECURSIVE getd3chr_from(_, _, _)
getd3chr_from(c, i, count) ==
    IF i = count \/ c.fault # "none" THEN c
    ELSE Bind(rdd1bits(c, 8), LAMBDA r :
            IF r.c.fault # "none" THEN r.c
            ELSE IF IndexFault(r.c, i) # "none" THEN cpanic(r.c, IndexFault(r.c, i))
            ELSE Bind([r.c EXCEPT !.buf[r.c.dst_pos - i] = r.out],
                      LAMBDA c1 : getd3chr_from(c1, i + 1, count)))

getd3chr(c, bits_count, input_len) ==
    Bind(rdd1bits(c, bits_count), LAMBDA r :
        IF r.c.fault # "none" THEN r.c
        ELSE Bind(adjust_len(r.c, r.out + input_len + 1), LAMBDA a :
                Bind(getd3chr_from(a.c, 0, a.count), LAMBDA c1 :
                    IF c1.fault # "none" THEN c1
                    ELSE [c1 EXCEPT !.dst_pos = @ - a.count])))

\* copyd3bytes: the copy loop from iteration i on
RECURSIVE copyd3bytes_from(_, _, _, _)
copyd3bytes_from(c, i, count, offset) ==
    IF i = count \/ c.fault # "none" THEN c
    ELSE IF IndexFault(c, i) # "none" THEN cpanic(c, IndexFault(c, i))
    ELSE IF c.dst_pos - i + offset >= BufLen(c.buf) THEN cpanic(c, "index out of bounds")
    ELSE Bind([c EXCEPT !.buf[c.dst_pos - i] = c.buf[c.dst_pos - i + offset]],
              LAMBDA c1 : copyd3bytes_from(c1, i + 1, count, offset))

copyd3bytes(c, bits_count, count) ==
    Bind(adjust_len(c, count), LAMBDA a :
        Bind(rdd1bits(a.c, bits_count), LAMBDA r :
            IF r.c.fault # "none" THEN r.c
            ELSE Bind(copyd3bytes_from(r.c, 0, a.count, r.out), LAMBDA c1 :
                    IF c1.fault # "none" THEN c1
                    ELSE [c1 EXCEPT !.dst_pos = @ - a.count])))

\* unpack, up to the loop
unpack_begin(buf, packed_len) ==
    LET c0 == [buf |-> buf, dst_pos |-> 0, src_pos |-> packed_len - 4, len |-> 0,
               crc |-> Zero32, bits |-> Zero32, fault |-> "none"]
        checked == build = "debug"
        overflow == "attempt to subtract with overflow"
        range == "range start index out of range"
        wlen == read_u32(buf, packed_len - 4)
        len == wlen.lo
        crc == read_u32(buf, packed_len - 8)
        bits == read_u32(buf, packed_len - 12)
    IN  IF packed_len < 4 /\ checked THEN cpanic(c0, overflow)
        ELSE IF ~ReadOk(buf, packed_len - 4) THEN cpanic(c0, range)
        ELSE IF packed_len < 8 /\ checked THEN cpanic(c0, overflow)
        ELSE IF wlen.hi > 0 \/ len > BufLen(buf) THEN cpanic(c0, "output buffer too small")
        ELSE IF len = 0 /\ checked THEN cpanic(c0, overflow)
        ELSE IF ~ReadOk(buf, packed_len - 8) THEN cpanic(c0, range)
        ELSE IF packed_len < 12 /\ checked THEN cpanic(c0, overflow)
        ELSE IF ~ReadOk(buf, packed_len - 12) THEN cpanic(c0, range)
        ELSE IF packed_len < 16 /\ checked THEN cpanic(c0, overflow)
        ELSE [c0 EXCEPT !.dst_pos = len - 1,
                        !.src_pos = packed_len - 16,
                        !.len = len,
                        !.crc = Xor32(crc, bits),
                        !.bits = bits]

\* unpack: one iteration of `while ctx.len > 0`
unpack_step(c) ==
    Bind(next_bit(c), LAMBDA b1 :
        IF b1.c.fault # "none" THEN b1.c
        ELSE IF b1.bit = 0
        THEN Bind(next_bit(b1.c), LAMBDA b2 :
                IF b2.c.fault # "none" THEN b2.c
                ELSE IF b2.bit = 0 THEN getd3chr(b2.c, 3, 0)
                ELSE copyd3bytes(b2.c, 8, 2))
        ELSE Bind(rdd1bits(b1.c, 2), LAMBDA code :
                IF code.c.fault # "none" THEN code.c
                ELSE IF code.out = 0 THEN copyd3bytes(code.c, 9, 3)
                ELSE IF code.out = 1 THEN copyd3bytes(code.c, 10, 4)
                ELSE IF code.out = 2
                THEN Bind(rdd1bits(code.c, 8), LAMBDA n :
                        IF n.c.fault # "none" THEN n.c
                        ELSE copyd3bytes(n.c, 12, n.out + 1))
                ELSE getd3chr(code.c, 8, 8)))

\* the assertion after the loop without its checksum half
unpack_end_AnyCrc(c) ==
    IF c.len = 0 THEN c ELSE cpanic(c, "bytekiller failure")

\* unpack: the assertion after the loop
unpack_end(c) ==
    IF c.len = 0 /\ c.crc = Zero32 THEN c ELSE cpanic(c, "bytekiller failure")

----------------------------------------------------------------------------
(* Task VM: src/src/script.rs *)

\* the byte of the arena at seg_code + a (bytes the part's program does not
\* set are the zeros of vec![0; DATA_SIZE])
CodeByte(gg, a) ==
    IF gg.current_part \in DOMAIN prog.code /\ a \in DOMAIN prog.code[gg.current_part]
    THEN prog.code[gg.current_part][a]
    ELSE 0

\* fetch_u8 / fetch_u16 / fetch_i16 read at pc + k; adv is the `pc += 1` of
\* the n fetches (wrapping; ovf records that one of them overflowed u16)
arg8(gg, k) == CodeByte(gg, U16(gg.vm.pc + k))
arg16(gg, k) == arg8(gg, k) * 256 + arg8(gg, k + 1)
argi16(gg, k) == ToI16(arg16(gg, k))
adv(gg, n) ==
    [gg EXCEPT !.vm.pc = U16(@ + n), !.ovf = @ \/ (gg.vm.pc + n > 65535)]

sync_music(gg, val) == [gg EXCEPT !.vm.regs[244] = ToI16(val)]

is_valid_keychar(c) == c = 8 \/ (c >= 97 /\ c <= 122)

make_dir(ul, rd) == IF ul THEN -1 ELSE IF rd THEN 1 ELSE 0

B2N(b) == IF b THEN 1 ELSE 0

update_input(gg) ==
    LET input == gg.input
        mask == B2N(input.right) + 2 * B2N(input.left) + 4 * B2N(input.down)
                    + 8 * B2N(input.up)
        g1 == IF gg.current_part = 16009
              THEN [gg EXCEPT
                      !.vm.regs[218] =
                          IF input.last_char # NONE /\ is_valid_keychar(input.last_char)
                          THEN BitAnd(input.last_char, 223) ELSE 0,
                      !.input.last_char = NONE]
              ELSE gg
    IN  [g1 EXCEPT
            !.vm.regs[252] = make_dir(input.left, input.right),
            !.vm.regs[229] = make_dir(input.up, input.down),
            !.vm.regs[251] = make_dir(input.up, input.down),
            !.vm.regs[253] = mask,
            !.vm.regs[250] = B2N(input.button),
            !.vm.regs[254] = mask + 128 * B2N(input.button)]

op_mov_const(gg) ==
    LET dst == arg8(gg, 0)
        val == argi16(gg, 1)
    IN  [adv(gg, 3) EXCEPT !.vm.regs[dst] = val]

op_mov(gg) ==
    LET dst == arg8(gg, 0)
        src == arg8(gg, 1)
    IN  [adv(gg, 2) EXCEPT !.vm.regs[dst] = gg.vm.regs[src]]

\* (the looping-gun hack at pc 0x6D48 of part 16006 only plays a sound)
op_add_const(gg) ==
    LET dst == arg8(gg, 0)
        val == argi16(gg, 1)
    IN  [adv(gg, 3) EXCEPT !.vm.regs[dst] = ToI16(@ + val)]

op_add(gg) ==
    LET dst == arg8(gg, 0)
        src == arg8(gg, 1)
    IN  [adv(gg, 2) EXCEPT !.vm.regs[dst] = ToI16(@ + gg.vm.regs[src])]

op_sub(gg) ==
    LET dst == arg8(gg, 0)
        src == arg8(gg, 1)
    IN  [adv(gg, 2) EXCEPT !.vm.regs[dst] = ToI16(@ - gg.vm.regs[src])]

op_and_const(gg) ==
    LET dst == arg8(gg, 0)
        val == argi16(gg, 1)
    IN  [adv(gg, 3) EXCEPT !.vm.regs[dst] = ToI16(BitAnd(@, val))]

op_or_const(gg) ==
    LET dst == arg8(gg, 0)
        val == argi16(gg, 1)
    IN  [adv(gg, 3) EXCEPT !.vm.regs[dst] = ToI16(BitOr(@, val))]

\* `<<=` with a shift of 16 or more (or negative) panics in a debug build
\* and masks the shift to its low four bits in a release build
op_shl_const(gg) ==
    LET dst == arg8(gg, 0)
        val == argi16(gg, 1)
    IN  IF (val < 0 \/ val > 15) /\ build = "debug"
        THEN panic(adv(gg, 3), "attempt to shift left with overflow")
        ELSE [adv(gg, 3) EXCEPT !.vm.regs[dst] = ToI16(@ * Pow2(val % 16))]

op_shr_const(gg) ==
    LET dst == arg8(gg, 0)
        val == arg16(gg, 1)
    IN  IF val > 15 /\ build = "debug"
        THEN panic(adv(gg, 3), "attempt to shift right with overflow")
        ELSE [adv(gg, 3) EXCEPT !.vm.regs[dst] = ToI16((@ % 65536) \div Pow2(val % 16))]

\* op_call without its assertion
op_call_Unchecked(gg) ==
    LET new_pc == arg16(gg, 0)
        g1 == adv(gg, 2)
    IN  [g1 EXCEPT !.vm.call_stack = (gg.vm.sp :> g1.vm.pc) @@ @,
                   !.vm.pc = new_pc,
                   !.vm.sp = @ + 1]

op_call(gg) ==
    IF ~(gg.vm.sp < CALL_STACK_SIZE)
    THEN panic(gg, "call-stack overflow")
    ELSE
        LET new_pc == arg16(gg, 0)
            g1 == adv(gg, 2)
        IN  [g1 EXCEPT !.vm.call_stack[gg.vm.sp] = g1.vm.pc,
                       !.vm.pc = new_pc,
                       !.vm.sp = @ + 1]

op_ret(gg) ==
    IF ~(gg.vm.sp > 0)
    THEN panic(gg, "call-stack underflow")
    ELSE [gg EXCEPT !.vm.sp = @ - 1,
                    !.vm.pc = gg.vm.call_stack[gg.vm.sp - 1]]

op_jmp(gg) ==
    LET new_pc == arg16(gg, 0)
    IN  [adv(gg, 2) EXCEPT !.vm.pc = new_pc]

op_jmp_if_var(gg) ==
    LET i == arg8(gg, 0)
        new_pc == arg16(gg, 1)
        v == ToI16(gg.vm.regs[i] - 1)
        g1 == [adv(gg, 3) EXCEPT !.vm.regs[i] = v]
    IN  IF v # 0 THEN [g1 EXCEPT !.vm.pc = new_pc] ELSE g1

load_pal_mem(gg, num) ==
    IF num < 32 /\ gg.video.current_pal_num # num
    THEN [gg EXCEPT !.video.current_pal_num = num]
    ELSE gg

\* a change of screen that leaves the palette alone
fixup_pal_after_change_screen_Never(gg, screen) == gg

fixup_pal_after_change_screen(gg, screen) ==
    IF gg.current_part = 16004 /\ screen = 71 THEN load_pal_mem(gg, 8)
    ELSE IF gg.current_part = 16006 /\ screen = 74 THEN load_pal_mem(gg, 1)
    ELSE gg

op_cond_jmp(gg) ==
    LET op == arg8(gg, 0)
        var_id == arg8(gg, 1)
        var == gg.vm.regs[var_id]
        arg == IF Has(op, 128) THEN gg.vm.regs[arg8(gg, 2)]
               ELSE IF Has(op, 64) THEN argi16(gg, 2)
               ELSE arg8(gg, 2)
        alen == IF Has(op, 128) THEN 1 ELSE IF Has(op, 64) THEN 2 ELSE 1
        new_pc == arg16(gg, 2 + alen)
        g1 == adv(gg, 4 + alen)
        c == op % 8
        bypass == var_id = 41 /\ Has(op, 128) /\ gg.current_part = 16000
                    /\ gg.bypass_protection
        test == IF c = 0 THEN var = arg
                ELSE IF c = 1 THEN var # arg
                ELSE IF c = 2 THEN var > arg
                ELSE IF c = 3 THEN var >= arg
                ELSE IF c = 4 THEN var < arg
                ELSE var <= arg
        g2 == IF bypass
              THEN [g1 EXCEPT !.vm.regs[41] = gg.vm.regs[30],
                              !.vm.regs[42] = gg.vm.regs[31],
                              !.vm.regs[43] = gg.vm.regs[32],
                              !.vm.regs[44] = gg.vm.regs[33],
                              !.vm.regs[50] = 6,
                              !.vm.regs[100] = 20]
              ELSE g1
    IN  IF c > 5 THEN panic(g1, "invalid condition in jump")
        ELSE IF test \/ bypass
        THEN
            LET g3 == [g2 EXCEPT !.vm.pc = new_pc]
            IN  IF var_id = 103 /\ gg.screen_num # var
                THEN fixup_pal_after_change_screen([g3 EXCEPT !.screen_num = var], var)
                ELSE g3
        ELSE g2

check_task_id(n) == n < TASK_COUNT

op_install_task(gg) ==
    LET n == arg8(gg, 0)
        pc == arg16(gg, 1)
    IN  IF ~check_task_id(n) THEN panic(adv(gg, 1), "invalid task ID")
        ELSE [adv(gg, 3) EXCEPT !.vm.pending_tasks[n].pc = pc]

\* op_remove_task that only yields
op_remove_task_KeepsPc(gg) == [gg EXCEPT !.vm.needs_yield = TRUE]

op_remove_task(gg) ==
    [gg EXCEPT !.vm.pc = HALT_PC, !.vm.needs_yield = TRUE]

\* op_yield_task that leaves the pc on the yield itself
op_yield_task_Rewinds(gg) ==
    [gg EXCEPT !.vm.needs_yield = TRUE, !.vm.pc = U16(@ - 1)]

op_yield_task(gg) ==
    [gg EXCEPT !.vm.needs_yield = TRUE]

\* op_change_tasks acting on the live table instead of the pending one
op_change_tasks_Live(gg) ==
    LET begin == arg8(gg, 0)
        end == BitAnd(arg8(gg, 1), 63)
        action == arg8(gg, 2)
    IN  IF ~check_task_id(begin) THEN panic(adv(gg, 1), "invalid task ID")
        ELSE IF begin > end THEN adv(gg, 3)
        ELSE [adv(gg, 3) EXCEPT !.vm.tasks =
                [i \in 0..(TASK_COUNT - 1) |->
                    IF begin <= i /\ i <= end
                    THEN IF action = 2
                         THEN [@[i] EXCEPT !.pc = PRE_HALT_PC]
                         ELSE [@[i] EXCEPT !.frozen = (action # 0)]
                    ELSE @[i]]]

\* op_change_tasks that puts a reversed range in order instead of rejecting it
op_change_tasks_Swapped(gg) ==
    LET begin == arg8(gg, 0)
        end == BitAnd(arg8(gg, 1), 63)
        action == arg8(gg, 2)
        lo == IF begin > end THEN end ELSE begin
        hi == IF begin > end THEN begin ELSE end
    IN  IF ~check_task_id(begin) THEN panic(adv(gg, 1), "invalid task ID")
        ELSE [adv(gg, 3) EXCEPT !.vm.pending_tasks =
                [i \in 0..(TASK_COUNT - 1) |->
                    IF lo <= i /\ i <= hi
                    THEN IF action = 2
                         THEN [@[i] EXCEPT !.pc = PRE_HALT_PC]
                         ELSE [@[i] EXCEPT !.frozen = (action # 0)]
                    ELSE @[i]]]

\* op_change_tasks over the half-open range begin..end
op_change_tasks_HalfOpen(gg) ==
    LET begin == arg8(gg, 0)
        end == BitAnd(arg8(gg, 1), 63)
        action == arg8(gg, 2)
    IN  IF ~check_task_id(begin) THEN panic(adv(gg, 1), "invalid task ID")
        ELSE IF ~check_task_id(end) THEN panic(adv(gg, 2), "invalid task ID")
        ELSE IF begin > end THEN adv(gg, 3)
        ELSE [adv(gg, 3) EXCEPT !.vm.pending_tasks =
                [i \in 0..(TASK_COUNT - 1) |->
                    IF begin <= i /\ i < end
                    THEN IF action = 2
                         THEN [@[i] EXCEPT !.pc = PRE_HALT_PC]
                         ELSE [@[i] EXCEPT !.frozen = (action # 0)]
                    ELSE @[i]]]

op_change_tasks(gg) ==
    LET begin == arg8(gg, 0)
        end == BitAnd(arg8(gg, 1), 63)
        action == arg8(gg, 2)
    IN  IF ~check_task_id(begin) THEN panic(adv(gg, 1), "invalid task ID")
        ELSE IF ~check_task_id(end) THEN panic(adv(gg, 2), "invalid task ID")
        ELSE IF begin > end THEN adv(gg, 3)
        ELSE [adv(gg, 3) EXCEPT !.vm.pending_tasks =
                [i \in 0..(TASK_COUNT - 1) |->
                    IF begin <= i /\ i <= end
                    THEN IF action = 2
                         THEN [@[i] EXCEPT !.pc = PRE_HALT_PC]
                         ELSE [@[i] EXCEPT !.frozen = (action # 0)]
                    ELSE @[i]]]

\* src/src/video/soft.rs: the screen and its framebuffers
SCR_W == 320
SCR_H == 200
FB_SIZE == SCR_W * SCR_H
COL_ALPHA == 16
COL_PAGE == 17

IsI16(x) == -32768 <= x /\ x <= 32767

\* a run of w pixels from offset `at` on: of one colour (kind "color"),
\* of what was there with bit 3 set ("alpha"), or copied from the
\* framebuffer src ("page")
Run(at, w, kind, color, src) ==
    [at |-> at, w |-> w, kind |-> kind, color |-> color, src |-> src]

\* the colour of pixel o of a framebuffer, and the same before run k + 1
\* was written; a bitmap's pixels stand for the contents of its bank file
RECURSIVE Px(_, _)
RECURSIVE PxBefore(_, _, _)
PxBefore(fb, o, k) ==
    IF k = 0 THEN (IF fb.bitmap # 0 THEN (fb.bitmap + o) % 16 ELSE 0)
    ELSE IF o < fb.px[k].at \/ o >= fb.px[k].at + fb.px[k].w THEN PxBefore(fb, o, k - 1)
    ELSE IF fb.px[k].kind = "alpha" THEN BitOr(PxBefore(fb, o, k - 1), 8)
    ELSE IF fb.px[k].kind = "page" THEN Px(fb.px[k].src, o)
    ELSE fb.px[k].color

Px(fb, o) == PxBefore(fb, o, Len(fb.px))

\* translate_page that passes an invalid page number on
translate_page_Raw(v, n) ==
    IF n <= 3 THEN n
    ELSE IF n = 254 THEN v.fb_xlat[2]
    ELSE IF n = 255 THEN v.fb_xlat[3]
    ELSE (n % 4) + 4

\* src/src/video/mod.rs: page translation
translate_page(v, n) ==
    IF n <= 3 THEN n
    ELSE IF n = 254 THEN v.fb_xlat[2]
    ELSE IF n = 255 THEN v.fb_xlat[3]
    ELSE 0

select_page(v, n) == [v EXCEPT !.fb_xlat[1] = translate_page(v, n)]

\* swap_pages that makes the back page the front one and keeps it as back
swap_pages_Copies(v, new_front_fb) ==
    IF new_front_fb # 254
    THEN IF new_front_fb = 255
         THEN [v EXCEPT !.fb_xlat = <<@[1], @[3], @[3]>>]
         ELSE [v EXCEPT !.fb_xlat[2] = translate_page(v, new_front_fb)]
    ELSE v

swap_pages(v, new_front_fb) ==
    IF new_front_fb # 254
    THEN IF new_front_fb = 255
         THEN [v EXCEPT !.fb_xlat = <<@[1], @[3], @[2]>>]
         ELSE [v EXCEPT !.fb_xlat[2] = translate_page(v, new_front_fb)]
    ELSE v

\* the value swap_pages returns: the front page after the call
swap_pages_ret(v, new_front_fb) == swap_pages(v, new_front_fb).fb_xlat[2]

\* soft::clear_fb: every byte of the framebuffer is the colour byte
clear_fb(gg, fb, color) ==
    [gg EXCEPT !.video.rndr.fb[fb] =
        [bitmap |-> 0, px |-> <<Run(0, FB_SIZE, "color", color, NewFb)>>]]

fill_page(gg, n, color) == clear_fb(gg, translate_page(gg.video, n), color)

\* soft::copy_fb: the number of bytes copy_nonoverlapping is given
copy_count(v_scroll) ==
    IF -199 <= v_scroll /\ v_scroll <= 199
    THEN IF v_scroll < 0 THEN (SCR_H + v_scroll) * SCR_W
         ELSE IF v_scroll > 0 THEN (SCR_H - v_scroll) * SCR_W
         ELSE SCR_W * SCR_H
    ELSE 0

\* soft::copy_fb.  The pointers that `src.add(..)` and `dst.add(..)` return
\* are dropped: the copy goes from the first byte of src_fb to the first
\* byte of dst_fb whatever v_scroll is.
copy_fb(gg, dst_fb, src_fb, v_scroll) ==
    IF dst_fb = src_fb THEN panic(gg, "assertion failed: (left != right)")
    ELSE IF copy_count(v_scroll) = 0 THEN gg
    ELSE [gg EXCEPT !.video.rndr.fb[dst_fb].px =
            Append(@, Run(0, copy_count(v_scroll), "page", 0, gg.video.rndr.fb[src_fb]))]

copy_page(gg, src, dst, v_scroll) ==
    IF src >= 254
    THEN copy_fb(gg, translate_page(gg.video, dst), translate_page(gg.video, src), 0)
    ELSE IF BitAnd(src, 128) = 0
    THEN copy_fb(gg, translate_page(gg.video, dst),
                 translate_page(gg.video, BitAnd(src, 191)), 0)
    ELSE IF translate_page(gg.video, BitAnd(src, 3)) # translate_page(gg.video, dst)
            /\ -199 <= v_scroll /\ v_scroll <= 199
    THEN copy_fb(gg, translate_page(gg.video, dst),
                 translate_page(gg.video, BitAnd(src, 3)), v_scroll)
    ELSE gg

\* the offsets at which the colour of a framebuffer can change
RECURSIVE Cuts(_)
Cuts(fb) ==
    {0} \cup UNION {{fb.px[k].at, fb.px[k].at + fb.px[k].w}
                      \cup (IF fb.px[k].kind = "page" THEN Cuts(fb.px[k].src) ELSE {})
                    : k \in 1..Len(fb.px)}

\* State::read_pixels: pal[pixel] for every byte of the framebuffer
read_pixels(gg, fb) ==
    IF \E o \in Cuts(gg.video.rndr.fb[fb]) :
            o < FB_SIZE /\ Px(gg.video.rndr.fb[fb], o) >= 16
    THEN panic(gg, "index out of bounds")
    ELSE gg

\* host::display_surface (the host window is not part of the model)
display_surface(gg, fb) == IF gg.fault # "none" THEN gg ELSE read_pixels(gg, fb)

op_select_page(gg) ==
    LET n == arg8(gg, 0)
    IN  [adv(gg, 1) EXCEPT !.video = select_page(@, n)]

op_fill_page(gg) == fill_page(adv(gg, 2), arg8(gg, 0), arg8(gg, 1))

op_copy_page(gg) == copy_page(adv(gg, 2), arg8(gg, 0), arg8(gg, 1), gg.vm.regs[249])

\* The operand bytes of a polygon-draw opcode; the shape itself is read
\* from the video segment with the data counter, not with pc.
op_draw_shape(gg, opcode) ==
    IF Has(opcode, 128) THEN adv(gg, 3)
    ELSE
        LET xlen == IF ~Has(opcode, 32) /\ ~Has(opcode, 16) THEN 2 ELSE 1
            ylen == IF ~Has(opcode, 8) /\ ~Has(opcode, 4) THEN 2 ELSE 1
            zlen == IF ~Has(opcode, 2)
                    THEN IF ~Has(opcode, 1) THEN 0 ELSE 1
                    ELSE IF Has(opcode, 1) THEN 0 ELSE 1
            g1 == adv(gg, 2 + xlen + ylen + 1)
        IN  IF zlen = 0 THEN [g1 EXCEPT !.vm.pc = U16(@ - 1)] ELSE g1

op_draw_string(gg) == adv(gg, 5)

op_change_pal(gg) ==
    LET num == arg8(gg, 0)
        skip_change == gg.video.needs_pal_fixup /\ gg.current_part = 16001
                        /\ (num = 10 \/ num = 16)
    IN  IF ~skip_change THEN [adv(gg, 2) EXCEPT !.next_pal = num] ELSE adv(gg, 2)

\* play_sound_shim: volume 0 stops the channel; otherwise the address comes
\* from mem::address_of_entry, which as defined in mem.rs returns the address
\* field of the entry whatever its status and kind, and sfx::play_sound
\* reads the sample header at that address
play_sound_shim(gg, resource, freq, volume, channel) ==
    IF volume = 0 THEN gg
    ELSE IF resource \notin EntryIds THEN panic(gg, "index out of bounds")
    ELSE [gg EXCEPT !.used =
            Append(@, <<"sound", resource, address_of_entry(gg.mem, resource)>>)]

op_play_sound(gg) ==
    play_sound_shim(adv(gg, 5), arg16(gg, 0), arg8(gg, 2), arg8(gg, 3), arg8(gg, 4))

\* src/src/sfx.rs
cvt_delay(delay) == ((delay * 60) \div 7050) % 65536

set_delay(gg, delay) == [gg EXCEPT !.music.delay = cvt_delay(delay)]

stop_sound_and_music(gg) == set_delay(gg, 0)

\* bytes and big-endian words of mem.data
mem_u8(gg, a) == IF a \in DOMAIN gg.mem.data THEN gg.mem.data[a] ELSE 0
mem_u16(gg, a) == mem_u8(gg, a) * 256 + mem_u8(gg, a + 1)
ToI8(b) == IF b >= 128 THEN b - 256 ELSE b

\* Frac::interpolate at fraction fp
interpolate(fp, sample1, sample2) == (sample1 * (65535 - fp) + sample2 * fp) \div 65536

\* i16 division, which rounds toward zero
DivI16(a, b) == IF a >= 0 THEN a \div b ELSE -((-a) \div b)

\* mix_channel without the clamp of its result
mix_channel_Unclamped(gg, ch, in_sample) ==
    LET c == gg.music.channels[ch]
        pos1 == c.pos.offset \div 65536
        sample == interpolate((c.pos.offset + c.pos.inc) % 65536,
                              ToI8(mem_u8(gg, c.sample_address + pos1)),
                              ToI8(mem_u8(gg, c.sample_address + pos1 + 1)))
    IN  [g |-> [gg EXCEPT !.music.channels[ch].pos.offset = @ + c.pos.inc],
         out |-> in_sample + DivI16(ToI16(sample * ToI16(c.volume)), 64)]

mix_channel(gg, ch, in_sample) ==
    LET c == gg.music.channels[ch]
        pos1 == c.pos.offset \div 65536
        looped == c.sample_loop_len # 0 /\ pos1 + 1 = c.sample_loop_pos + c.sample_loop_len
        pos2 == IF looped THEN c.sample_loop_pos ELSE pos1 + 1
        offset == IF looped THEN pos2 * 65536 ELSE c.pos.offset + c.pos.inc
        g1 == [gg EXCEPT !.music.channels[ch].pos.offset = offset]
        sample == interpolate(offset % 65536,
                              ToI8(mem_u8(gg, c.sample_address + pos1)),
                              ToI8(mem_u8(gg, c.sample_address + pos2)))
        product == sample * ToI16(c.volume)
        sum == in_sample + DivI16(ToI16(product), 64)
    IN  IF c.sample_len = 0 THEN [g |-> gg, out |-> in_sample]
        ELSE IF c.sample_loop_len = 0 /\ pos2 = c.sample_len
        THEN [g |-> [g1 EXCEPT !.music.channels[ch].sample_len = 0], out |-> in_sample]
        ELSE IF c.sample_address > DATA_SIZE
        THEN [g |-> panic(g1, "range start index out of range"), out |-> 0]
        ELSE IF c.sample_address + pos1 >= DATA_SIZE \/ c.sample_address + pos2 >= DATA_SIZE
        THEN [g |-> panic(g1, "index out of bounds"), out |-> 0]
        ELSE IF build = "debug" /\ (product < -32768 \/ product > 32767)
        THEN [g |-> panic(g1, "attempt to multiply with overflow"), out |-> 0]
        ELSE [g |-> g1,
              out |-> IF sum > 127 THEN 127 ELSE IF sum < -128 THEN -128 ELSE sum]

\* handle_pattern below its music-sync test
handle_note(gg, channel, address) ==
    LET note1 == mem_u16(gg, address)
        note2 == mem_u16(gg, address + 2)
        sample == note2 \div 4096
        ins == gg.music.track.samples[sample - 1]
        set == sample # 0 /\ ins.address # 0
        len2 == mem_u16(gg, ins.address) * 2
        loop2 == mem_u16(gg, ins.address + 2) * 2
        sample_len == len2 % 65536
        loop_len == loop2 % 65536
        effect == (note2 \div 256) % 16
        amount == note2 % 256
        volume == IF effect = 5
                  THEN (IF (ins.volume + amount) % 65536 < 63
                        THEN (ins.volume + amount) % 65536 ELSE 63)
                  ELSE IF effect = 6
                  THEN (IF ins.volume > amount THEN ins.volume - amount ELSE 0)
                  ELSE ins.volume
        g1 == IF set THEN [gg EXCEPT !.music.channels[channel].volume = volume] ELSE gg
        freq == (7159092 \div (note1 * 2)) % 65536
    IN  IF set /\ ins.address + 4 > DATA_SIZE
        THEN panic(gg, "range start index out of range")
        ELSE IF set /\ build = "debug" /\ (len2 > 65535 \/ loop2 > 65535)
        THEN panic(gg, "attempt to multiply with overflow")
        ELSE IF set /\ build = "debug" /\ effect = 5 /\ ins.volume + amount > 65535
        THEN panic(gg, "attempt to add with overflow")
        ELSE IF note1 = 65534
        THEN [g1 EXCEPT !.music.channels[channel].sample_len = 0]
        ELSE IF note1 # 0 /\ set
        THEN IF note1 < 55 \/ note1 >= 4096
             THEN panic(g1, "assertion failed: (0x37..0x1000).contains(&note1)")
             ELSE [g1 EXCEPT !.music.channels[channel] =
                    [sample_address |-> ins.address + 8,
                     sample_len |-> sample_len,
                     sample_loop_pos |-> IF loop_len # 0 THEN sample_len ELSE 0,
                     sample_loop_len |-> loop_len,
                     volume |-> volume,
                     pos |-> [inc |-> (freq * 16384) \div 11025, offset |-> 0]]]
        ELSE g1

\* handle_pattern going on after a music sync as after any other note
handle_pattern_NoReturn(gg, channel, address) ==
    IF address + 4 > DATA_SIZE THEN panic(gg, "range start index out of range")
    ELSE IF mem_u16(gg, address) = 65533
    THEN handle_note(sync_music(gg, mem_u16(gg, address + 2)), channel, address)
    ELSE handle_note(gg, channel, address)

handle_pattern(gg, channel, address) ==
    IF address + 4 > DATA_SIZE THEN panic(gg, "range start index out of range")
    ELSE IF mem_u16(gg, address) = 65533
    THEN sync_music(gg, mem_u16(gg, address + 2))
    ELSE handle_note(gg, channel, address)

\* address of the pattern row that process_events reads next
row_address(gg) ==
    gg.music.track.address + gg.music.track.cur_pos
        + gg.music.track.order_table[gg.music.track.cur_order] * 1024

\* process_events: the rows of the four channels, until one panics
RECURSIVE handle_patterns(_, _, _)
handle_patterns(gg, address, ch) ==
    IF ch = 4 \/ gg.fault # "none" THEN gg
    ELSE handle_patterns(handle_pattern(gg, ch, address + ch * 4), address, ch + 1)

\* process_events: the step to the next row
next_row(gg) ==
    IF gg.fault # "none" THEN gg
    ELSE IF gg.music.track.cur_pos + 16 >= 1024
    THEN IF gg.music.track.cur_order = 255 /\ build = "debug"
         THEN panic(gg, "attempt to add with overflow")
         ELSE [gg EXCEPT !.music.track.cur_pos = 0,
                         !.music.track.cur_order = (@ + 1) % 256]
    ELSE [gg EXCEPT !.music.track.cur_pos = @ + 16]

process_events(gg) ==
    IF gg.music.track.cur_order > 127 THEN panic(gg, "index out of bounds")
    ELSE next_row(handle_patterns(gg, row_address(gg), 0))

\* mix_samples: channel b mixed onto the result r of another channel
mix_onto(r, b) == mix_channel(r.g, b, r.out)

\* mix_samples: one stereo frame, channels 0 and 3 left, 1 and 2 right
mix_frame(gg) ==
    mix_onto(mix_channel(mix_onto(mix_channel(gg, 0, 0), 3).g, 1, 0), 2).g

\* mix_samples: the inner loop over count frames; a frame of four silent
\* channels changes nothing
RECURSIVE mix_frames(_, _)
mix_frames(gg, count) ==
    IF count = 0 \/ gg.fault # "none"
        \/ \A ch \in 0..3 : gg.music.channels[ch].sample_len = 0
    THEN gg
    ELSE mix_frames(mix_frame(gg), count - 1)

\* mix_samples: the top of the outer loop
begin_tick(gg) ==
    IF gg.music.samples_left # 0 THEN gg
    ELSE [process_events(gg) EXCEPT
            !.music.samples_left = HOST_RATE \div (1000 \div gg.music.delay)]


\* mix_samples: the outer loop `while len != 0`
RECURSIVE mix_ticks(_, _)
RECURSIVE mix_tick(_, _)
mix_ticks(gg, len) ==
    IF len = 0 \/ gg.fault # "none" THEN gg
    ELSE mix_tick(begin_tick(gg), len)

mix_tick(gg, len) ==
    IF gg.fault # "none" THEN gg
    ELSE mix_ticks(mix_frames([gg EXCEPT !.music.samples_left =
                                    @ - Min(gg.music.samples_left, len)],
                              Min(gg.music.samples_left, len)),
                   len - Min(gg.music.samples_left, len))

\* mix_samples that mixes one tick whatever the room in `out`
mix_samples_OneTick(gg, n) ==
    IF gg.music.delay = 0 THEN panic(gg, "assertion failed: g.music.delay != 0")
    ELSE [process_events(gg) EXCEPT !.music.samples_left = 0]

\* mix_samples on an `out` of n samples
mix_samples(gg, n) ==
    IF gg.music.delay = 0 THEN panic(gg, "assertion failed: g.music.delay != 0")
    ELSE IF gg.music.delay > 1000 THEN panic(gg, "attempt to divide by zero")
    ELSE mix_ticks(gg, (n \div 2) % 65536)

\* mix_samples: the two samples it stores for one stereo frame
frame_out(gg) ==
    <<mix_onto(mix_channel(gg, 0, 0), 3).out * 256,
      mix_onto(mix_channel(mix_onto(mix_channel(gg, 0, 0), 3).g, 1, 0), 2).out * 256>>

\* mix_samples: the samples the inner loop stores for count frames
RECURSIVE frames_out(_, _)
frames_out(gg, count) ==
    IF count = 0 \/ gg.fault # "none" THEN <<>>
    ELSE frame_out(gg) \o frames_out(mix_frame(gg), count - 1)

\* mix_samples: the samples the outer loop stores for len frames
RECURSIVE ticks_out(_, _)
RECURSIVE tick_out(_, _)
ticks_out(gg, len) ==
    IF len = 0 \/ gg.fault # "none" THEN <<>>
    ELSE tick_out(begin_tick(gg), len)

tick_out(gg, len) ==
    IF gg.fault # "none" THEN <<>>
    ELSE frames_out(gg, Min(gg.music.samples_left, len))
            \o ticks_out(mix_frames([gg EXCEPT !.music.samples_left =
                                        @ - Min(gg.music.samples_left, len)],
                                    Min(gg.music.samples_left, len)),
                         len - Min(gg.music.samples_left, len))

\* nr: the loop over chunks_exact_mut(2) from sample i on.  Both stores of
\* the body go to pair[0].
RECURSIVE nr_from(_, _, _, _)
nr_from(out, i, prev_l, prev_r) ==
    IF i + 1 > Len(out) THEN out
    ELSE nr_from([out EXCEPT ![i] = ToI16((out[i + 1] \div 2) + prev_r)],
                 i + 2, out[i] \div 2, out[i + 1] \div 2)

nr(out) == nr_from(out, 1, 0, 0)

\* mix_samples: what it leaves in a buffer `out`.  The loop moves the slice
\* `out` past the frames of each tick, so nr is given what is left behind
\* the last frame.
mix_samples_out(gg, out) ==
    Bind(ticks_out(gg, (Len(out) \div 2) % 65536), LAMBDA w :
        w \o nr(SubSeq(out, Len(w) + 1, Len(out))))

\* rb: RbInspector::slots_free, RbProducer::write, RbConsumer::read
slots_free(ring) == MUSIC_BUFFER_LEN - (ring.wr - ring.rd)

\* Ok(number written), NONE for Err(RbError::Full)
write_count(ring, n) ==
    IF n = 0 THEN 0
    ELSE IF slots_free(ring) = 0 THEN NONE
    ELSE IF n < slots_free(ring) THEN n ELSE slots_free(ring)

\* Ok(number read), NONE for Err(RbError::Empty)
read_count(ring, n) ==
    IF n = 0 THEN 0
    ELSE IF ring.wr = ring.rd THEN NONE
    ELSE IF n < ring.wr - ring.rd THEN n ELSE ring.wr - ring.rd

\* a buf as long as the whole ring
buf_len_Whole(gg) == MUSIC_BUFFER_LEN

\* host.rs, produce_music: the length buf is resized to
buf_len(gg) == slots_free(gg.host.music_chan)

\* host.rs, produce_music: buf.resize(..) and mix_samples
produce_mix(gg) == mix_samples(gg, buf_len(gg))

\* host.rs, produce_music: music_chan_prod.write(buf).unwrap() of n samples
produce_write(gg, n) ==
    IF gg.fault # "none" THEN gg
    ELSE IF write_count(gg.host.music_chan, n) = NONE
    THEN panic(gg, "called Result::unwrap() on an Err value: Full")
    ELSE [gg EXCEPT !.host.music_chan.wr = @ + write_count(gg.host.music_chan, n)]

produce_music(gg) ==
    IF gg.music.delay = 0 THEN gg
    ELSE produce_write(produce_mix(gg), buf_len(gg))

\* host.rs, consume_music on a stream of n samples: the ring after it
consume_music(gg, n) ==
    IF read_count(gg.host.music_chan, n) = NONE THEN gg
    ELSE [gg EXCEPT !.host.music_chan.rd = @ + read_count(gg.host.music_chan, n)]

\* mem::address_of_entry_with_kind: Some(address) iff Ready and of that kind
address_of_entry_with_kind(m, num, kind) ==
    IF num \in EntryIds /\ m.list[num].status = STATUS_READY /\ m.list[num].kind = kind
    THEN m.list[num].address
    ELSE NONE

\* prepare_instruments on the table at address a; an address of NONE is
\* the None that `expect` refuses
prepare_instruments(gg, a) ==
    [i \in 0..14 |->
        IF mem_u16(gg, a + i * 4) = 0 THEN [address |-> 0, volume |-> 0]
        ELSE [address |-> address_of_entry_with_kind(gg.mem, mem_u16(gg, a + i * 4), 0),
              volume |-> mem_u16(gg, a + i * 4 + 2)]]

\* default delay stored in the header of a music resource
HeaderDelay == 6000

seek(gg, res_num, delay, cur_order) ==
    LET address == address_of_entry_with_kind(gg.mem, res_num, 1)
    IN  IF address = NONE THEN gg
        ELSE IF address + address + 62 > DATA_SIZE
        THEN panic(gg, "range start index out of range")
        ELSE IF \E i \in 0..14 : prepare_instruments(gg, address + 2)[i].address = NONE
        THEN panic(gg, "error loading instrument")
        ELSE [gg EXCEPT
                !.music = [delay |-> cvt_delay(IF delay = 0 THEN HeaderDelay ELSE delay),
                           samples_left |-> 0,
                           channels |-> NewPlayer.channels,
                           track |-> [address |-> address + 192,
                                      cur_pos |-> 0,
                                      cur_order |-> cur_order,
                                      num_order |-> mem_u16(gg, address + address + 62),
                                      order_table |->
                                        [i \in 0..127 |-> mem_u8(gg, address + 64 + i)],
                                      samples |-> prepare_instruments(gg, address + 2)]],
                !.used = Append(@, <<"music", res_num, address>>)]

op_play_music(gg) ==
    LET resource == arg16(gg, 0)
        delay == arg16(gg, 2)
        pos == arg8(gg, 4)
        g1 == adv(gg, 5)
    IN  IF resource # 0 THEN seek(g1, resource, delay, pos) ELSE set_delay(g1, delay)

\* update_resources that keeps the part requested first
update_resources_FirstWins(gg, num) ==
    IF num = 0
    THEN LET g1 == stop_sound_and_music(gg)
         IN  [g1 EXCEPT !.mem = invalidate_res(@),
                        !.video.current_pal_num = NONE]
    ELSE IF num >= 16000
    THEN [gg EXCEPT !.next_part = IF @ = NONE THEN num ELSE @]
    ELSE load_entry(gg, num)

update_resources(gg, num) ==
    IF num = 0
    THEN LET g1 == stop_sound_and_music(gg)
         IN  [g1 EXCEPT !.mem = invalidate_res(@),
                        !.video.current_pal_num = NONE]
    ELSE IF num >= 16000 THEN [gg EXCEPT !.next_part = num]
    ELSE load_entry(gg, num)

op_update_resources(gg) == update_resources(adv(gg, 2), arg16(gg, 0))

\* op_update_display ending the slice
op_update_display_Yields(gg) ==
    LET page == arg8(gg, 0)
        g1 == [adv(gg, 1) EXCEPT !.video = swap_pages(@, page)]
        g2 == IF g1.next_pal # NONE
              THEN load_pal_mem([g1 EXCEPT !.next_pal = NONE], g1.next_pal)
              ELSE g1
    IN  [g2 EXCEPT !.vm.regs[247] = 0, !.vm.needs_yield = TRUE]

\* op_update_display: the loop `for _ in 0..regs[PAUSE_SLICES]`
RECURSIVE pause_slices(_, _)
pause_slices(gg, n) ==
    IF n <= 0 \/ gg.fault # "none" THEN gg ELSE pause_slices(produce_music(gg), n - 1)

\* op_update_display: its last statement
end_display(gg) ==
    IF gg.fault # "none" THEN gg ELSE [gg EXCEPT !.vm.regs[247] = 0]

op_update_display(gg) ==
    LET page == arg8(gg, 0)
        g1 == [adv(gg, 1) EXCEPT !.video = swap_pages(@, page)]
        g2 == IF g1.next_pal # NONE
              THEN load_pal_mem([g1 EXCEPT !.next_pal = NONE], g1.next_pal)
              ELSE g1
        g3 == display_surface(g2, swap_pages_ret(gg.video, page))
    IN  end_display(pause_slices(g3, g3.vm.regs[255]))

\* One iteration of the `while !needs_yield` loop of execute_task
execute_task(gg) ==
    LET opcode == arg8(gg, 0)
        g1 == adv(gg, 1)
    IN  IF Has(opcode, 192) THEN op_draw_shape(g1, opcode)
        ELSE CASE opcode = 0 -> op_mov_const(g1)
               [] opcode = 1 -> op_mov(g1)
               [] opcode = 2 -> op_add(g1)
               [] opcode = 3 -> op_add_const(g1)
               [] opcode = 4 -> op_call(g1)
               [] opcode = 5 -> op_ret(g1)
               [] opcode = 6 -> op_yield_task(g1)
               [] opcode = 7 -> op_jmp(g1)
               [] opcode = 8 -> op_install_task(g1)
               [] opcode = 9 -> op_jmp_if_var(g1)
               [] opcode = 10 -> op_cond_jmp(g1)
               [] opcode = 11 -> op_change_pal(g1)
               [] opcode = 12 -> op_change_tasks(g1)
               [] opcode = 13 -> op_select_page(g1)
               [] opcode = 14 -> op_fill_page(g1)
               [] opcode = 15 -> op_copy_page(g1)
               [] opcode = 16 -> op_update_display(g1)
               [] opcode = 17 -> op_remove_task(g1)
               [] opcode = 18 -> op_draw_string(g1)
               [] opcode = 19 -> op_sub(g1)
               [] opcode = 20 -> op_and_const(g1)
               [] opcode = 21 -> op_or_const(g1)
               [] opcode = 22 -> op_shl_const(g1)
               [] opcode = 23 -> op_shr_const(g1)
               [] opcode = 24 -> op_play_sound(g1)
               [] opcode = 25 -> op_update_resources(g1)
               [] opcode = 26 -> op_play_music(g1)
               [] OTHER -> panic(g1, "invalid opcode")

restart_at(gg, part, pos) ==
    LET g1 == stop_sound_and_music(gg)
        g2 == [g1 EXCEPT !.vm.regs[228] = 20,
                         !.vm.regs[84] = IF part = 16000 THEN 129 ELSE @]
        g3 == setup_part(g2, part)
        g4 == [g3 EXCEPT
                !.vm.tasks = [i \in 0..(TASK_COUNT - 1) |->
                                IF i = 0 THEN [pc |-> 0, frozen |-> FALSE] ELSE NewTask],
                !.vm.pending_tasks = [i \in 0..(TASK_COUNT - 1) |-> NewTask],
                !.screen_num = NONE,
                !.vm.regs[0] = IF pos >= 0 THEN pos ELSE @]
    IN  IF g3.fault # "none" THEN g3
        ELSE IF g4.video.needs_pal_fixup /\ part = 16009 THEN load_pal_mem(g4, 5)
        ELSE g4

\* stage_tasks copying every pending pc as it is
stage_tasks_Raw(gg) ==
    LET g1 == IF gg.next_part # NONE
              THEN restart_at([gg EXCEPT !.next_part = NONE], gg.next_part, -1)
              ELSE gg
    IN  IF g1.fault # "none" THEN g1
        ELSE [g1 EXCEPT
                !.vm.tasks = [i \in 0..(TASK_COUNT - 1) |->
                    [pc |-> IF g1.vm.pending_tasks[i].pc # HALT_PC
                            THEN g1.vm.pending_tasks[i].pc
                            ELSE @[i].pc,
                     frozen |-> g1.vm.pending_tasks[i].frozen]],
                !.vm.pending_tasks = [i \in 0..(TASK_COUNT - 1) |->
                    [@[i] EXCEPT !.pc = HALT_PC]]]

\* stage_tasks that clears the pending frozen flags it has applied
stage_tasks_Thaws(gg) ==
    LET g1 == IF gg.next_part # NONE
              THEN restart_at([gg EXCEPT !.next_part = NONE], gg.next_part, -1)
              ELSE gg
    IN  IF g1.fault # "none" THEN g1
        ELSE [g1 EXCEPT
                !.vm.tasks = [i \in 0..(TASK_COUNT - 1) |->
                    [pc |-> IF g1.vm.pending_tasks[i].pc # HALT_PC
                            THEN IF g1.vm.pending_tasks[i].pc = PRE_HALT_PC
                                 THEN HALT_PC
                                 ELSE g1.vm.pending_tasks[i].pc
                            ELSE @[i].pc,
                     frozen |-> g1.vm.pending_tasks[i].frozen]],
                !.vm.pending_tasks = [i \in 0..(TASK_COUNT - 1) |-> NewTask]]

stage_tasks(gg) ==
    LET g1 == IF gg.next_part # NONE
              THEN restart_at([gg EXCEPT !.next_part = NONE], gg.next_part, -1)
              ELSE gg
    IN  IF g1.fault # "none" THEN g1
        ELSE [g1 EXCEPT
                !.vm.tasks = [i \in 0..(TASK_COUNT - 1) |->
                    [pc |-> IF g1.vm.pending_tasks[i].pc # HALT_PC
                            THEN IF g1.vm.pending_tasks[i].pc = PRE_HALT_PC
                                 THEN HALT_PC
                                 ELSE g1.vm.pending_tasks[i].pc
                            ELSE @[i].pc,
                     frozen |-> g1.vm.pending_tasks[i].frozen]],
                !.vm.pending_tasks = [i \in 0..(TASK_COUNT - 1) |->
                    [@[i] EXCEPT !.pc = HALT_PC]]]

\* run_tasks whose test forgets the frozen flag
Runnable_IgnoresFrozen(gg, i) == ~(gg.vm.tasks[i].pc = HALT_PC)

\* run_tasks: the test at the head of the `for id` loop, the slice set-up
\* before execute_task and the write-back after it
Runnable(gg, i) == ~(gg.vm.tasks[i].pc = HALT_PC \/ gg.vm.tasks[i].frozen)

NextRunnable(gg, from) ==
    IF \E i \in from..(TASK_COUNT - 1) : Runnable(gg, i)
    THEN CHOOSE i \in from..(TASK_COUNT - 1) :
            Runnable(gg, i) /\ \A j \in from..(i - 1) : ~Runnable(gg, j)
    ELSE TASK_COUNT

begin_task(gg, i) ==
    [gg EXCEPT !.vm.pc = gg.vm.tasks[i].pc, !.vm.sp = 0, !.vm.needs_yield = FALSE]

end_task(gg, i) == [gg EXCEPT !.vm.tasks[i].pc = gg.vm.pc]

----------------------------------------------------------------------------
(* Polygon rendering: src/src/video/mod.rs and src/src/video/soft.rs *)

\* video::fetch_u8: the byte of the video segment at the data counter
fetch_u8(gg) ==
    IF gg.fault # "none" THEN [g |-> gg, v |-> 0]
    ELSE IF (IF gg.video.use_seg2 THEN gg.mem.seg_video2 ELSE gg.mem.seg_video1)
                + gg.video.dc >= DATA_SIZE
    THEN [g |-> panic(gg, "index out of bounds"), v |-> 0]
    ELSE IF gg.video.dc = 65535 /\ build = "debug"
    THEN [g |-> panic(gg, "attempt to add with overflow"), v |-> 0]
    ELSE [g |-> [gg EXCEPT !.video.dc = (@ + 1) % 65536],
          v |-> mem_u8(gg, (IF gg.video.use_seg2 THEN gg.mem.seg_video2
                            ELSE gg.mem.seg_video1) + gg.video.dc)]

\* fetch_dim: the conversion of the byte fetched
to_dim(r, zoom) ==
    IF r.g.fault # "none" THEN r
    ELSE IF (r.v * zoom) \div 64 > 32767
    THEN [g |-> panic(r.g, "called Result::unwrap() on an Err value: TryFromIntError(())"),
          v |-> 0]
    ELSE [g |-> r.g, v |-> (r.v * zoom) \div 64]

fetch_dim(gg, zoom) == to_dim(fetch_u8(gg), zoom)

\* QuadStrip::push without the assertion on the capacity
push_Unchecked(r, vertex) == [g |-> r.g, qs |-> Append(r.qs, vertex)]

\* QuadStrip::push on the strip r.qs
push(r, vertex) ==
    IF Len(r.qs) = 70
    THEN [g |-> panic(r.g, "assertion failed: (left != right)"), qs |-> r.qs]
    ELSE [g |-> r.g, qs |-> Append(r.qs, vertex)]

\* x1 + fetch_dim(..) in i16
add_i16(gg, a, b) ==
    IF IsI16(a + b) THEN [g |-> gg, v |-> a + b]
    ELSE IF build = "debug" THEN [g |-> panic(gg, "attempt to add with overflow"), v |-> 0]
    ELSE [g |-> gg, v |-> ToI16(a + b)]

\* fill_polygon: one turn of the loop over the vertices, the x fetched
vertex_y(r, x1, y1, zoom, xd) ==
    Bind(add_i16(xd.g, x1, xd.v), LAMBDA x :
        IF x.g.fault # "none" THEN [g |-> x.g, qs |-> r.qs]
        ELSE Bind(fetch_dim(x.g, zoom), LAMBDA yd :
            IF yd.g.fault # "none" THEN [g |-> yd.g, qs |-> r.qs]
            ELSE Bind(add_i16(yd.g, y1, yd.v), LAMBDA y :
                IF y.g.fault # "none" THEN [g |-> y.g, qs |-> r.qs]
                ELSE push([g |-> y.g, qs |-> r.qs], [x |-> x.v, y |-> y.v]))))

\* fill_polygon: the loop `for _ in 0..num`
RECURSIVE read_vertices(_, _, _, _, _)
read_vertices(r, x1, y1, zoom, left) ==
    IF left = 0 \/ r.g.fault # "none" THEN r
    ELSE read_vertices(vertex_y(r, x1, y1, zoom, fetch_dim(r.g, zoom)),
                       x1, y1, zoom, left - 1)

\* soft::grab; the index is computed in u16
grab(gg, fb, x, y) ==
    IF y * SCR_W + x > 65535 /\ build = "debug"
    THEN [g |-> panic(gg, "attempt to multiply with overflow"), v |-> 0]
    ELSE IF (y * SCR_W + x) % 65536 >= FB_SIZE
    THEN [g |-> panic(gg, "index out of bounds"), v |-> 0]
    ELSE [g |-> gg, v |-> Px(gg.video.rndr.fb[fb], (y * SCR_W + x) % 65536)]

\* soft::out
out(gg, fb, x, y, color) ==
    IF gg.fault # "none" THEN gg
    ELSE IF ~(x < SCR_W /\ y < SCR_H)
    THEN panic(gg, "assertion failed: x < SCR_W && y < SCR_H")
    ELSE [gg EXCEPT !.video.rndr.fb[fb].px =
            Append(@, Run(y * SCR_W + x, 1, "color", color, NewFb))]

draw_point(gg, fb, x, y, color) ==
    IF color = COL_ALPHA
    THEN Bind(grab(gg, fb, x, y), LAMBDA r : out(r.g, fb, x, y, BitOr(r.v % 256, 8)))
    ELSE IF color = COL_PAGE
    THEN Bind(grab(gg, 0, x, y), LAMBDA r : out(r.g, fb, x, y, r.v))
    ELSE out(gg, fb, x, y, color)

\* a u32 as its two 16-bit halves
U32(hi, lo) == [hi |-> hi % 65536, lo |-> lo % 65536]
Add32(a, b) == U32(a.hi + b.hi + (a.lo + b.lo) \div 65536, a.lo + b.lo)

\* an i32 `as u32`
AsU32(x) == U32((x - (x % 65536)) \div 65536, x)

\* i32 division, which rounds toward zero
DivI32(a, b) == IF a >= 0 THEN a \div b ELSE -((-a) \div b)

\* a difference of two i16 computed in i16
sub_i16(a, b) == [ovf |-> ~IsI16(a - b), v |-> ToI16(a - b)]

\* calc_step counting the row of the lower vertex as well
calc_step_Inclusive(v1, v2) ==
    [ovf |-> (sub_i16(v2.y, v1.y).ovf \/ sub_i16(v2.x, v1.x).ovf),
     step |-> AsU32(DivI32(sub_i16(v2.x, v1.x).v * 65536,
                           IF U16(sub_i16(v2.y, v1.y).v) = 0 THEN 1
                           ELSE U16(sub_i16(v2.y, v1.y).v))),
     h |-> U16(sub_i16(v2.y, v1.y).v) + 1]

\* soft::calc_step: (step as u32, dy); ovf: an i16 subtraction overflowed
calc_step(v1, v2) ==
    [ovf |-> (sub_i16(v2.y, v1.y).ovf \/ sub_i16(v2.x, v1.x).ovf),
     step |-> AsU32(DivI32(sub_i16(v2.x, v1.x).v * 65536,
                           IF U16(sub_i16(v2.y, v1.y).v) = 0 THEN 1
                           ELSE U16(sub_i16(v2.y, v1.y).v))),
     h |-> U16(sub_i16(v2.y, v1.y).v)]

\* draw_h_line_alpha, draw_h_line_page and draw_h_line_color, chosen by the
\* colour as draw_polygon does
draw_h_line(gg, fb, offset, w, color) ==
    IF offset > FB_SIZE THEN panic(gg, "range start index out of range")
    ELSE IF color = COL_PAGE /\ fb = 0 THEN gg
    ELSE IF offset + w > FB_SIZE THEN panic(gg, "index out of bounds")
    ELSE [gg EXCEPT !.video.rndr.fb[fb].px =
            Append(@, IF color = COL_ALPHA THEN Run(offset, w, "alpha", color, NewFb)
                      ELSE IF color = COL_PAGE
                      THEN Run(offset, w, "page", color, gg.video.rndr.fb[0])
                      ELSE Run(offset, w, "color", color, NewFb))]

Max(a, b) == IF a > b THEN a ELSE b

\* draw_polygon: the row h_line_y between the edge positions x1 and x2
h_line(gg, fb, color, x1, x2, h_line_y) ==
    IF h_line_y >= 0 /\ x1 < SCR_W /\ x2 >= 0
    THEN draw_h_line(gg, fb,
            h_line_y * SCR_W + Min(Max(x1, 0), Min(x2, SCR_W - 1)),
            Max(Max(x1, 0), Min(x2, SCR_W - 1)) - Min(Max(x1, 0), Min(x2, SCR_W - 1)) + 1,
            color)
    ELSE gg

\* draw_polygon: the loop `while h > 0` on the state l of the edges;
\* l.stop: the loop left through `break 'top`
RECURSIVE h_lines(_, _, _, _, _, _)
h_lines(l, fb, color, step1, step2, h) ==
    IF h = 0 \/ l.stop \/ l.g.fault # "none" THEN l
    ELSE h_lines([l EXCEPT
                    !.g = h_line(l.g, fb, color, ToI16(l.cpt1.hi), ToI16(l.cpt2.hi),
                                 l.h_line_y),
                    !.cpt1 = Add32(@, step1),
                    !.cpt2 = Add32(@, step2),
                    !.h_line_y = @ + 1,
                    !.stop = l.h_line_y + 1 >= SCR_H],
                 fb, color, step1, step2, h - 1)

\* draw_polygon: one quad of the strip, between the steps s1 and s2
quad(l, fb, color, s1, s2) ==
    IF (s1.ovf \/ s2.ovf) /\ build = "debug"
    THEN [l EXCEPT !.g = panic(@, "attempt to subtract with overflow")]
    ELSE IF s2.h = 0
    THEN [l EXCEPT !.cpt1 = Add32(U32(@.hi, 32767), s1.step),
                   !.cpt2 = Add32(U32(@.hi, 32768), s2.step),
                   !.i = @ + 1, !.j = @ - 1, !.count = @ - 2]
    ELSE h_lines([l EXCEPT !.cpt1 = U32(@.hi, 32767),
                           !.cpt2 = U32(@.hi, 32768),
                           !.i = @ + 1, !.j = @ - 1, !.count = @ - 2],
                 fb, color, s1.step, s2.step, s2.h)

\* draw_polygon: the loop `'top: while count > 2`; vs is indexed from 1
RECURSIVE quads(_, _, _, _)
quads(l, fb, vs, color) ==
    IF l.count <= 2 \/ l.stop \/ l.g.fault # "none" THEN l.g
    ELSE quads(quad(l, fb, color,
                    calc_step(vs[l.j + 2], vs[l.j + 1]),
                    calc_step(vs[l.i], vs[l.i + 1])),
               fb, vs, color)

draw_polygon(gg, fb, vs, color) ==
    IF Len(vs) <= 2 THEN gg
    ELSE quads([g |-> gg, i |-> 1, j |-> Len(vs) - 2, count |-> Len(vs),
                cpt1 |-> U32(vs[Len(vs)].x, 0), cpt2 |-> U32(vs[1].x, 0),
                h_line_y |-> Min(vs[1].y, vs[Len(vs)].y), stop |-> FALSE],
               fb, vs, color)

\* fill_polygon: after the loop over the vertices
fill_strip(r, x, y, color, num, bbw, bbh) ==
    IF r.g.fault # "none" THEN r.g
    ELSE IF num = 4 /\ bbw = 0 /\ bbh <= 1
    THEN draw_point(r.g, r.g.video.fb_xlat[1], U16(x), U16(y), color)
    ELSE draw_polygon(r.g, r.g.video.fb_xlat[1], r.qs, color)

\* fill_polygon: from the vertex count on
fill_counted(n, x, y, zoom, color, bbw, bbh) ==
    IF n.g.fault # "none" \/ n.v % 2 # 0 THEN n.g
    ELSE fill_strip(read_vertices([g |-> n.g, qs |-> <<>>],
                                  x - bbw \div 2, y - bbh \div 2, zoom, n.v),
                    x, y, color, n.v, bbw, bbh)

\* fill_polygon: from the bounding box on
fill_boxed(gg, x, y, zoom, color, bbw, bbh) ==
    IF gg.fault # "none" THEN gg
    ELSE IF ~IsI16(x - bbw \div 2) \/ ~IsI16(x + bbw \div 2)
            \/ ~IsI16(y - bbh \div 2) \/ ~IsI16(y + bbh \div 2)
    THEN panic(gg, "called Result::unwrap() on an Err value: TryFromIntError(())")
    ELSE IF x - bbw \div 2 > 319 \/ x + bbw \div 2 < 0
            \/ y - bbh \div 2 > 199 \/ y + bbh \div 2 < 0
    THEN gg
    ELSE fill_counted(fetch_u8(gg), x, y, zoom, color, bbw, bbh)

fill_polygon(gg, x, y, zoom, color) ==
    Bind(fetch_dim(gg, zoom), LAMBDA w :
        Bind(fetch_dim(w.g, zoom), LAMBDA h :
            fill_boxed(h.g, x, y, zoom, color, w.v, h.v)))

----------------------------------------------------------------------------
(* Inputs of the VM exploration: bytecode programs *)

\* the bytes `bytes` stored from code offset `base` on
Code(base, bytes) == [a \in base..(base + Len(bytes) - 1) |-> bytes[a - base + 1]]

Hi(x) == x \div 256
Lo(x) == x % 256

NominalList == MkList(0, 0, 0, 0, 0)

Scenario(scene, code) == [scene |-> scene, list |-> NominalList, code |-> code]

\* install-task(t, a); remove-task; yield   with a remove-task at a
ScriptedHalt(t, a) ==
    Scenario(16001,
        16001 :> (Code(0, <<\h08, t, Hi(a), Lo(a), \h11, \h06>>) @@ Code(a, <<\h11>>)))

\* the same with the target slot frozen by the installing task first
FrozenHalt(t, a) ==
    Scenario(16001,
        16001 :> (Code(0, <<\h0C, t, t, 1, \h08, t, Hi(a), Lo(a), \h11>>)
                    @@ Code(a, <<\h11>>)))

\* call 0 at 0: unbounded recursion
CallOverflow == Scenario(16001, 16001 :> Code(0, <<\h04, \h00, \h00>>))

\* nested calls and returns, one slice per frame
CallRet ==
    Scenario(16001,
        16001 :> (Code(0, <<\h04, \h00, \h10, \h04, \h00, \h10, \h06, \h07, \h00, \h00>>)
                    @@ Code(\h10, <<\h04, \h00, \h20, \h05>>)
                    @@ Code(\h20, <<\h05>>)))

RetUnderflow == Scenario(16001, 16001 :> Code(0, <<\h05>>))

\* task 0 starts tasks 1, 2 and 63, then freezes, unfreezes and halts them
\* while they run; task 63 freezes task 0 and installs task 1 again
Scheduler ==
    Scenario(16001,
        16001 :> (Code(0, <<\h08, 1, \h00, \h40,  \h08, 2, \h00, \h40,
                            \h08, 63, \h00, \h50, \h06,
                            \h0C, 1, 2, 1,  \h08, 3, \h00, \h40,  \h06,
                            \h0C, 1, 1, 0,  \h0C, 2, 3, 2,  \h06,
                            \h07, \h00, \h1E>>)
                    @@ Code(\h40, <<\h06, \h07, \h00, \h40>>)
                    @@ Code(\h50, <<\h06, \h0C, 0, 0, 1, \h08, 1, \h00, \h40,
                                    \h06, \h07, \h00, \h59>>)))

\* change-tasks(b, e, a) issued by task 0 after it started tasks 2 and 5
ChangeTasks(b, e, a) ==
    Scenario(16001,
        16001 :> (Code(0, <<\h08, 2, \h00, \h40,  \h08, 5, \h00, \h40,
                            \h0C, b, e, a,  \h06,  \h07, \h00, \h0C>>)
                    @@ Code(\h40, <<\h06, \h07, \h00, \h40>>)))

\* update-display followed by more instructions of the same slice
Display ==
    Scenario(16001,
        16001 :> (Code(0, <<\h08, 1, \h00, \h20,
                            \h0B, 3, 0,  \h10, \hFF,  \h00, 1, \h00, \h07,
                            \h10, \hFE,  \h10, 1,  \h06,  \h07, \h00, \h04>>)
                    @@ Code(\h20, <<\h00, 2, \h00, \h09, \h11>>)))

\* a yield followed by a byte that is no opcode
BadAfterYield == Scenario(16001, 16001 :> Code(0, <<\h06, \h3F>>))

\* a yield in the last bytes of the 64 KiB code space
HighYield ==
    Scenario(16001,
        16001 :> (Code(0, <<\h07, \hFF, \hFD, 0, 0, 0, \h11>>) @@ Code(\hFFFD, <<\h06>>)))

\* update-resources: loads, invalidation, a part change
Resources ==
    Scenario(16001,
        (16001 :> Code(0, <<\h19, \h00, \h01,  \h19, \h00, \h03,  \h19, \h00, \h02,
                            \h1A, \h00, \h02, \h00, \h00, 0,  \h06,
                            \h19, \h00, \h00,  \h19, \h00, \h11,
                            \h08, 4, \h00, \h00, \h19, \h3E, \h82,  \h06,
                            \h07, \h00, \h1D>>))
        @@ (16002 :> Code(0, <<\h19, \h00, \h01, \h06, \h07, \h00, \h03>>)))

\* arithmetic, jumps and the drawing and sound opcodes
Arith ==
    Scenario(16001,
        16001 :> Code(0,
               <<\h00, 1, \h00, \h03>>                  \* 00 mov-imm r1, 3
            \o <<\h03, 2, \h7F, \hFF>>                  \* 04 add-imm r2, 0x7FFF
            \o <<\h09, 1, \h00, \h04>>                  \* 08 jmp-if-dec r1, 04
            \o <<\h01, 3, 2>>                           \* 0C mov r3, r2
            \o <<\h02, 3, 2>>                           \* 0F add r3, r2
            \o <<\h13, 3, 1>>                           \* 12 sub r3, r1
            \o <<\h14, 3, \h0F, \hF0>>                  \* 15 and-imm r3
            \o <<\h15, 3, \h80, \h01>>                  \* 19 or-imm r3
            \o <<\h16, 3, \h00, \h03>>                  \* 1D shl-imm r3, 3
            \o <<\h17, 3, \h00, \h02>>                  \* 21 shr-imm r3, 2
            \o <<\h0A, \h00, \hFC, 1, \h00, \h2C>>      \* 25 cond-jmp rFC == 1, 2C
            \o <<\h06>>                                 \* 2B yield
            \o <<\h0A, \h42, 2, \h7F, \hFF, \h00, \h35>> \* 2C cond-jmp r2 > 0x7FFF
            \o <<\h0A, \h81, \h67, 3, \h00, \h3A>>      \* 33 cond-jmp r67 != r3, 3A
            \o <<\h11>>                                 \* 39 remove-task
            \o <<\h0B, 10, 0>>                          \* 3A change-pal 10
            \o <<\h0D, \hFF>>                           \* 3D select-page back
            \o <<\h0E, 1, 5>>                           \* 3F fill-page
            \o <<\h0F, 1, 2>>                           \* 42 copy-page
            \o <<\h12, 0, 1, 2, 3, 4>>                  \* 45 draw-string
            \o <<\h18, 0, 1, 1, \h20, 0>>               \* 4B play-sound
            \o <<\h1A, 0, 0, \h17, \h70, 0>>            \* 51 play-music 0, delay
            \o <<\h80, \h10, \h20, \h30>>               \* 57 draw (short form)
            \o <<\h40, 0, \h10, 0, \h20, 0, \h30>>      \* 5B draw (wide x, y)
            \o <<\h7B, 0, \h10, 5, 6>>                  \* 62 draw (narrow, seg2)
            \o <<\h16, 3, \h00, \h10>>                  \* 67 shl-imm r3, 16
            \o <<\h17, 3, \h00, \h11>>                  \* 6B shr-imm r3, 17
            \o <<\h06>>                                 \* 6F yield
            \o <<\h07, \h00, \h6F>>))                   \* 70 jmp 6F

\* the protection screen: a register-mode compare of r29 in part 16000
Protection ==
    Scenario(16000,
        (16000 :> (Code(0, <<\h0A, \h80, \h29, \h1E, \h00, \h10, \h11>>)
                    @@ Code(\h10, <<\h19, \h3E, \h81, \h06, \h07, \h00, \h13>>)))
        @@ (16001 :> Code(0, <<\h06, \h07, \h00, \h00>>)))

\* sounds and music started from entries that are loaded, of the other
\* kind, or not loaded at all
Sound ==
    Scenario(16001,
        16001 :> Code(0,
               <<\h19, \h00, \h02>>                   \* 00 update-resources 2 (music)
            \o <<\h1A, \h00, \h02, \h00, \h00, 0>>    \* 03 play-music 2
            \o <<\h1A, \h00, \h01, \h00, \h00, 0>>    \* 09 play-music 1 (not loaded)
            \o <<\h18, \h00, \h01, 1, 0, 0>>          \* 0F play-sound 1, volume 0
            \o <<\h06>>                               \* 15 yield
            \o <<\h19, \h00, \h01>>                   \* 16 update-resources 1 (sound)
            \o <<\h18, \h00, \h01, 1, \h20, 0>>       \* 19 play-sound 1
            \o <<\h1A, \h00, \h01, \h00, \h00, 0>>    \* 1F play-music 1 (a sound)
            \o <<\h18, \h00, \h02, 1, \h20, 0>>       \* 25 play-sound 2 (a music)
            \o <<\h19, \h00, \h00>>                   \* 2B update-resources 0
            \o <<\h18, \h00, \h01, 1, \h20, 1>>       \* 2E play-sound 1 (invalidated)
            \o <<\h06>>                               \* 34 yield
            \o <<\h07, \h00, \h34>>))                  \* 35 jmp 34

BadCond == Scenario(16001, 16001 :> Code(0, <<\h0A, \h06, 1, 0, 0, 0>>))

InvalidOpcode == Scenario(16001, 16001 :> Code(0, <<\h1B>>))

\* the password screen reads the keyboard
Password ==
    Scenario(16009, 16009 :> Code(0, <<\h01, 1, \hDA, \h06, \h07, \h00, \h00>>))

\* a scene number that names no part
BadScene == Scenario(15999, 16001 :> Code(0, <<\h06>>))

\* a part whose script queues palette 3, shows it, enters screen scr through
\* a conditional jump on register 0x67 and then invalidates the resources
Screen(part, scr) ==
    Scenario(part,
        part :> Code(0,
               <<\h0B, 3, 0>>                         \* 00 change-pal 3
            \o <<\h10, \hFF>>                         \* 03 update-display
            \o <<\h00, \h67, \h00, scr>>              \* 05 mov r67, scr
            \o <<\h0A, \h00, \h67, scr, \h00, \h10>>  \* 09 jeq r67, scr, 0010
            \o <<\h06>>                               \* 0F yield
            \o <<\h0B, 4, 0>>                         \* 10 change-pal 4
            \o <<\h19, \h00, \h00>>                   \* 13 update-resources 0
            \o <<\h06>>                               \* 16 yield
            \o <<\h07, \h00, \h16>>))                 \* 17 jmp 16

\* two part changes requested in the second frame by task 0, after it froze
\* slots 0..5 and installed task 7, and before task 1 gets its slice
PartChange(a, b) ==
    Scenario(16001,
        (16001 :> (Code(0, <<\h08, 1, \h00, \h40,  \h06,
                             \h0C, 0, 5, 1,  \h08, 7, \h00, \h40,
                             \h19, Hi(a), Lo(a),  \h19, Hi(b), Lo(b),  \h06,
                             \h07, \h00, \h13>>)
                    @@ Code(\h40, <<\h00, 1, \h00, 7, \h06, \h07, \h00, \h44>>)))
        @@ (16002 :> Code(0, <<\h00, 2, \h00, 5, \h06, \h07, \h00, \h04>>)))

\* update-resources on the memlist `list`: entry 1 twice, 0x11, the bitmap 3,
\* an invalidation, entry 2 and 0x11 again
Pager(list) ==
    [Scenario(16001,
        16001 :> Code(0, <<\h19, \h00, \h01,  \h19, \h00, \h01,  \h19, \h00, \h11,
                           \h19, \h00, \h03,  \h19, \h00, \h00,  \h19, \h00, \h02,
                           \h19, \h00, \h11,  \h06,  \h07, \h00, \h15>>))
     EXCEPT !.list = list]

PagerLists ==
    {NominalList, MkList(0, 0, 1, 7, 0), MkList(1, 0, 0, 0, 0), MkList(0, 0, 2, 5, 0)}

Scenarios ==
    {ScriptedHalt(t, a) : t \in {0, 5, 63, 64}, a \in {\h10, \h0120}}
    \cup {FrozenHalt(5, \h10)}
    \cup {ChangeTasks(b, e, a) : b \in {0, 5, 63, 64}, e \in {3, \h45, \hFF}, a \in 0..3}
    \cup {CallOverflow, CallRet, RetUnderflow, Scheduler, Display, BadAfterYield,
          HighYield, Resources, Arith, Sound, Protection, BadCond, InvalidOpcode,
          Password, BadScene}
    \cup {Screen(16004, \h47), Screen(16006, \h4A), Screen(16004, \h4A)}
    \cup {PartChange(16001, 16002), PartChange(16002, 16001), PartChange(16002, 16010)}
    \cup {Pager(l) : l \in PagerLists}

\* keyboard states seen by process_input
Inputs ==
    {NewInput,
     [last_char |-> 97, right |-> TRUE, left |-> FALSE,
      down |-> FALSE, up |-> TRUE, button |-> TRUE]}

----------------------------------------------------------------------------
(* The main thread: src/src/main.rs *)

Running == g.fault = "none"

NoInstall == [i \in 0..(TASK_COUNT - 1) |-> NONE]

Clear(gg) == [gg EXCEPT !.io = <<>>, !.used = <<>>]

\* main: restart_at(scene, -1) before the frame loop
Boot ==
    /\ loc = "boot"
    /\ g' = restart_at(g, prog.scene, -1)
    /\ loc' = "stage"
    /\ UNCHANGED <<id, frame, ran, snap, inst, prog, build, ctx, snd>>

\* run_frame: stage_tasks
StageTasks ==
    /\ loc = "stage" /\ Running /\ frame < MaxFrames
    /\ g' = stage_tasks(Clear(g))
    /\ loc' = "input"
    /\ frame' = frame + 1
    /\ ran' = <<>>
    /\ snap' = g'.vm.tasks
    /\ inst' = [cur |-> NoInstall, prev |-> inst.cur, restarted |-> g.next_part # NONE]
    /\ UNCHANGED <<id, prog, build, ctx, snd>>

\* the host asks to quit
Quit ==
    /\ loc = "stage" /\ Running /\ frame = MaxFrames
    /\ loc' = "quit"
    /\ UNCHANGED <<g, id, frame, ran, snap, inst, prog, build, ctx, snd>>

\* run_frame: update_input
UpdateInput ==
    /\ loc = "input" /\ Running
    /\ g' = update_input(g)
    /\ loc' = "run"
    /\ id' = 0
    /\ UNCHANGED <<frame, ran, snap, inst, prog, build, ctx, snd>>

\* run_tasks: the loop skips to the next slot that is neither halted nor
\* frozen and sets up its slice
BeginTask ==
    /\ loc = "run" /\ Running
    /\ NextRunnable(g, id) < TASK_COUNT
    /\ id' = NextRunnable(g, id)
    /\ g' = begin_task(g, id')
    /\ ran' = Append(ran, id')
    /\ loc' = "exec"
    /\ UNCHANGED <<frame, snap, inst, prog, build, ctx, snd>>

\* run_tasks: no slot is left to run
EndFrame ==
    /\ loc = "run" /\ Running
    /\ NextRunnable(g, id) = TASK_COUNT
    /\ id' = TASK_COUNT
    /\ loc' = "events"
    /\ UNCHANGED <<g, frame, ran, snap, inst, prog, build, ctx, snd>>

\* execute_task: one instruction
Step(gg) ==
    LET r == execute_task(Clear(gg))
    IN  IF r.ovf /\ build = "debug"
        THEN panic(Clear(gg), "attempt to add with overflow")
        ELSE [r EXCEPT !.ovf = FALSE]

ExecuteTask ==
    /\ loc = "exec" /\ Running
    /\ ~g.vm.needs_yield
    /\ g' = Step(g)
    /\ inst' = IF arg8(g, 0) = 8 /\ g'.fault = "none"
               THEN [inst EXCEPT !.cur[arg8(g, 1)] = arg16(g, 2)]
               ELSE inst
    /\ UNCHANGED <<loc, id, frame, ran, snap, prog, build, ctx, snd>>

\* run_tasks: the slice is over, the slot keeps the pc it stopped at
EndTask ==
    /\ loc = "exec" /\ Running
    /\ g.vm.needs_yield
    /\ g' = end_task(g, id)
    /\ id' = id + 1
    /\ loc' = "run"
    /\ UNCHANGED <<frame, ran, snap, inst, prog, build, ctx, snd>>

\* host::process_input between two frames
ProcessInput ==
    /\ loc = "events" /\ Running
    /\ \E inp \in Inputs : g' = [g EXCEPT !.input = inp]
    /\ loc' = "stage"
    /\ UNCHANGED <<id, frame, ran, snap, inst, prog, build, ctx, snd>>

Init ==
    /\ prog \in Scenarios
    /\ build \in {"debug", "release"}
    /\ g = NewGame(prog.list)
    /\ loc = "boot"
    /\ id = 0
    /\ frame = 0
    /\ ran = <<>>
    /\ snap = g.vm.tasks
    /\ inst = [cur |-> NoInstall, prev |-> NoInstall, restarted |-> FALSE]
    /\ ctx = Idle
    /\ snd = Idle

Next ==
    \/ Boot
    \/ StageTasks
    \/ Quit
    \/ UpdateInput
    \/ BeginTask
    \/ EndFrame
    \/ ExecuteTask
    \/ EndTask
    \/ ProcessInput

Spec == Init /\ [][Next]_vars

----------------------------------------------------------------------------
(* The resource pager driven directly: the requests a script can make with
   update-resources, and the part change applied by the next stage_tasks *)

MemScenes == {16001, 16002}
MemNums == {0, 1, 2, 3, 17, 16001, 16002, 16010}

MemUpdateResources ==
    /\ loc = "stage" /\ Running
    /\ \E num \in MemNums : g' = update_resources(Clear(g), num)
    /\ UNCHANGED <<loc, id, frame, ran, snap, inst, prog, build, ctx, snd>>

MemStageTasks ==
    /\ loc = "stage" /\ Running
    /\ g.next_part # NONE
    /\ frame < MaxParts
    /\ g' = stage_tasks(Clear(g))
    /\ frame' = frame + 1
    /\ UNCHANGED <<loc, id, ran, snap, inst, prog, build, ctx, snd>>

InitMem ==
    /\ \E s \in MemScenes, l \in MemLists :
            prog = [scene |-> s, list |-> l, code |-> <<>>]
    /\ build = "release"
    /\ g = NewGame(prog.list)
    /\ loc = "boot"
    /\ id = 0
    /\ frame = 0
    /\ ran = <<>>
    /\ snap = g.vm.tasks
    /\ inst = [cur |-> NoInstall, prev |-> NoInstall, restarted |-> FALSE]
    /\ ctx = Idle
    /\ snd = Idle

NextMem ==
    \/ Boot
    \/ MemUpdateResources
    \/ MemStageTasks

SpecMem == InitMem /\ [][NextMem]_vars

----------------------------------------------------------------------------
(* Properties of the scheduler, checked under Spec *)

Slots == 0..(TASK_COUNT - 1)
RanSet == {ran[k] : k \in 1..Len(ran)}
InFrame == loc \in {"run", "exec", "events"}

\* the opcode the next ExecuteTask step fetches, and that step itself
Opcode == arg8(g, 0)
InstrStep == loc = "exec" /\ loc' = "exec" /\ g' # g

\* the slot was runnable when run_tasks was entered
WasRunnable(i) == snap[i].pc # HALT_PC /\ ~snap[i].frozen

\* C1: in every frame run_tasks gives a slice to exactly the slots whose
\* live pc is not 0xFFFF and whose live frozen flag is false, each at most
\* once and in strictly ascending id order; a slot that is halted or frozen
\* when its turn comes runs nothing and keeps its pc.
C1_RunOrder ==
    InFrame =>
        /\ \A k \in 1..Len(ran) : WasRunnable(ran[k])
        /\ \A k \in 1..(Len(ran) - 1) : ran[k] < ran[k + 1]
        /\ \A i \in Slots :
            /\ (WasRunnable(i) /\ (i < id \/ (loc = "exec" /\ i = id))) => i \in RanSet
            /\ i \in RanSet => i <= id
            /\ i \notin RanSet => g.vm.tasks[i] = snap[i]

\* a frame in which a frozen slot and halted slots lie between slots that ran
C1_Witness ==
    /\ loc = "events" /\ Running
    /\ Len(ran) >= 3
    /\ \E i \in Slots : snap[i].frozen /\ snap[i].pc # HALT_PC /\ i < ran[Len(ran)]
    /\ \E i \in Slots : snap[i].pc = HALT_PC /\ ran[1] < i /\ i < ran[Len(ran)]

\* C2: the call depth never exceeds 64: sp stays in 0..64, every slice
\* starts with sp = 0, and op_call at sp = 64 aborts without writing a
\* call_stack slot and without fetching its operand or jumping.
C2_CallDepth ==
    /\ [](g.vm.sp \in 0..CALL_STACK_SIZE)
    /\ [][(loc = "run" /\ loc' = "exec") => g'.vm.sp = 0]_vars
    /\ [][(InstrStep /\ Opcode = 4 /\ g.vm.sp = CALL_STACK_SIZE) =>
            /\ g'.fault = "call-stack overflow"
            /\ g'.vm.call_stack = g.vm.call_stack
            /\ g'.vm.sp = g.vm.sp
            /\ g'.vm.pc = U16(g.vm.pc + 1)]_vars

\* the abort of the 65th nested call
C2_Witness ==
    /\ g.fault = "call-stack overflow"
    /\ g.vm.sp = CALL_STACK_SIZE
    /\ \A k \in 0..(CALL_STACK_SIZE - 1) : g.vm.call_stack[k] = 3

\* C3: install-task and change-tasks change the pending table only; during
\* a frame no live frozen flag changes and a live pc changes only by the
\* write-back of the slot whose slice ends, so what was frozen, unfrozen,
\* halted or installed in frame N is run or skipped in frame N by its live
\* state of the last stage_tasks; stage_tasks is what makes it visible.
C3_PendingOnly ==
    /\ [][(InstrStep /\ Opcode \in {8, 12}) => g'.vm.tasks = g.vm.tasks]_vars
    /\ [][(loc \in {"input", "run", "exec", "events"}) =>
            \A i \in Slots :
                /\ g'.vm.tasks[i].frozen = g.vm.tasks[i].frozen
                /\ (g'.vm.tasks[i].pc # g.vm.tasks[i].pc =>
                        loc = "exec" /\ loc' = "run" /\ i = id)]_vars
    /\ [][(loc = "stage" /\ loc' = "input" /\ g.next_part = NONE) =>
            \A i \in Slots :
                /\ g'.vm.tasks[i].frozen = g.vm.pending_tasks[i].frozen
                /\ (g.vm.pending_tasks[i].pc \notin {HALT_PC, PRE_HALT_PC} =>
                        g'.vm.tasks[i].pc = g.vm.pending_tasks[i].pc)]_vars

\* slots 1 and 2 were frozen by slot 0 in this frame, and slot 3 installed,
\* yet 1 and 2 ran in it and 3 did not
C3_Witness ==
    /\ loc = "events" /\ Running
    /\ g.vm.pending_tasks[1].frozen /\ ~snap[1].frozen /\ 1 \in RanSet
    /\ g.vm.pending_tasks[2].frozen /\ ~snap[2].frozen /\ 2 \in RanSet
    /\ inst.cur[3] # NONE /\ 3 \notin RanSet /\ g.vm.tasks[3].pc = HALT_PC
    /\ ran[1] = 0

\* C4 as stated: a slice ends exactly at the opcodes 0x06, 0x11 and 0x10
C4_Original ==
    [][(InstrStep /\ g'.fault = "none") =>
            (g'.vm.needs_yield <=> Opcode \in {6, 17, 16})]_vars

\* C4 (amended): a slice ends exactly when the task executes yield (0x06)
\* or remove-task (0x11), and then control passes to the next slot without
\* another instruction of the same task; update-display (0x10) does not end
\* the slice: the task goes on with the instruction after its operand.
C4_YieldPoints ==
    /\ [][(InstrStep /\ g'.fault = "none") =>
            /\ (g'.vm.needs_yield <=> Opcode \in {6, 17})
            /\ (Opcode = 16 => g'.vm.pc = U16(g.vm.pc + 2))]_vars
    /\ [][(loc = "exec" /\ g.vm.needs_yield) =>
            /\ loc' = "run" /\ id' = id + 1
            /\ g'.vm.tasks[id].pc = g.vm.pc
            /\ g'.vm.regs = g.vm.regs]_vars

\* task 0 executed update-display and then, in the same slice, the mov-imm
\* that follows it
C4_Witness ==
    /\ prog = Display
    /\ loc = "exec" /\ frame = 1 /\ ran = <<0>>
    /\ g.vm.pc = 13
    /\ g.vm.regs[1] = 7
    /\ ~g.vm.needs_yield

\* the byte at p is a remove-task opcode
IsRemove(p) == CodeByte(g, p) = 17

\* C5 as stated: a slot for which install-task(id, pc) ran in the frame
\* before, with a remove-task at pc, is halted at the end of this frame
C5_Original ==
    (loc = "events" /\ Running) =>
        \A i \in Slots :
            (inst.prev[i] # NONE /\ IsRemove(inst.prev[i])) => g.vm.tasks[i].pc = HALT_PC

\* C5 (amended): if install-task(id, pc) with pc below 0xFFFE is the last
\* write to the pending pc of slot id in frame N, no part change is requested
\* in frame N and the slot's pending frozen flag is clear at the end of
\* frame N, then stage_tasks of frame N+1 makes pc the live pc of the slot
\* (it did not run at pc in frame N); and a slot staged unfrozen at a pc that
\* holds a remove-task is run once in that frame and has live pc 0xFFFF
\* after it.  A slot staged frozen keeps pc and is not halted.
C5_ScriptedHalt ==
    /\ [][(loc = "stage" /\ loc' = "input" /\ g.next_part = NONE) =>
            \A i \in Slots :
                (/\ inst.cur[i] \notin {NONE, HALT_PC, PRE_HALT_PC}
                 /\ g.vm.pending_tasks[i].pc = inst.cur[i])
                => /\ g'.vm.tasks[i].pc = inst.cur[i]
                   /\ g'.vm.tasks[i].frozen = g.vm.pending_tasks[i].frozen]_vars
    /\ []((loc = "events" /\ Running) =>
            \A i \in Slots :
                (/\ inst.prev[i] \notin {NONE, HALT_PC, PRE_HALT_PC}
                 /\ IsRemove(inst.prev[i])
                 /\ snap[i].pc = inst.prev[i])
                => IF snap[i].frozen
                   THEN g.vm.tasks[i].pc = inst.prev[i] /\ i \notin RanSet
                   ELSE g.vm.tasks[i].pc = HALT_PC /\ i \in RanSet)

\* the scenario of the specification: after two frames task 5, installed at
\* 0x0010 by task 0 in the first, has run and halted
C5_Witness ==
    /\ prog = ScriptedHalt(5, 16)
    /\ loc = "events" /\ frame = 2
    /\ inst.prev[5] = 16
    /\ ran = <<5>>
    /\ g.vm.tasks[5].pc = HALT_PC

\* bytes that execute_task dispatches
KnownOpcode(b) == Has(b, 192) \/ b \in 0..26

\* C6 as stated: after a frame every live pc is 0xFFFF or points at a known
\* opcode, and no live pc is the sentinel 0xFFFE
C6_Original ==
    (loc = "events" /\ Running) =>
        \A i \in Slots :
            /\ g.vm.tasks[i].pc = HALT_PC \/ KnownOpcode(CodeByte(g, g.vm.tasks[i].pc))
            /\ g.vm.tasks[i].pc # PRE_HALT_PC

\* C6 (amended): after a frame every slot that ran in it has live pc 0xFFFF
\* or the address right after the yield that ended its slice (the byte at
\* that address is decoded, and an unknown opcode found, only by the next
\* fetch); stage_tasks never stores the sentinel 0xFFFE in a live slot.
C6_FrameEnd ==
    /\ []((loc = "events" /\ Running) =>
            \A i \in RanSet :
                g.vm.tasks[i].pc = HALT_PC \/ CodeByte(g, U16(g.vm.tasks[i].pc - 1)) = 6)
    /\ [][(loc = "stage" /\ loc' = "input") =>
            \A i \in Slots :
                g'.vm.tasks[i].pc = PRE_HALT_PC => g.vm.tasks[i].pc = PRE_HALT_PC]_vars

\* the halt scheduled for slots 0..3 reached stage_tasks and became 0xFFFF,
\* while slot 5 ran and stopped after its yield
C6_Witness ==
    /\ prog = ChangeTasks(0, 3, 2)
    /\ loc = "events" /\ frame = 2 /\ Running
    /\ inst.prev[2] = 64 /\ g.vm.tasks[2].pc = HALT_PC
    /\ g.vm.tasks[0].pc = HALT_PC
    /\ ran = <<5>> /\ g.vm.tasks[5].pc = 65

\* the operands of the change-tasks about to be executed
CtBegin == arg8(g, 1)
CtEnd == BitAnd(arg8(g, 2), 63)

\* C7 as stated: change-tasks with begin > (end & 0x3F) changes nothing
\* and execution continues after the three operand bytes
C7_Original ==
    [][(InstrStep /\ Opcode = 12 /\ CtBegin > CtEnd) =>
            /\ g'.fault = "none"
            /\ g'.vm.tasks = g.vm.tasks
            /\ g'.vm.pending_tasks = g.vm.pending_tasks
            /\ g'.vm.pc = U16(g.vm.pc + 4)]_vars

\* C7 (amended): change-tasks with begin < 64 and begin > (end & 0x3F)
\* changes no pending or live task and execution continues after the three
\* operand bytes; with begin >= 64 it aborts on the task-id assertion
\* (before reading end), also without changing a task.
C7_InvalidRange ==
    [][(InstrStep /\ Opcode = 12 /\ CtBegin > CtEnd) =>
            /\ g'.vm.tasks = g.vm.tasks
            /\ g'.vm.pending_tasks = g.vm.pending_tasks
            /\ IF CtBegin < TASK_COUNT
               THEN g'.fault = "none" /\ g'.vm.pc = U16(g.vm.pc + 4)
                    /\ ~g'.vm.needs_yield
               ELSE g'.fault = "invalid task ID" /\ g'.vm.pc = U16(g.vm.pc + 2)]_vars

\* task 0 is past a change-tasks(63, 3, 1): nothing is frozen or halted
C7_Witness ==
    /\ prog = ChangeTasks(63, 3, 1)
    /\ loc = "exec" /\ Running /\ frame = 1
    /\ g.vm.pc = 12
    /\ \A i \in Slots : ~g.vm.pending_tasks[i].frozen
    /\ g.vm.pending_tasks[2].pc = 64

----------------------------------------------------------------------------
(* Properties of the resource pager, checked under SpecMem *)

\* the step calls setup_part (through restart_at), for this part
SetupStep ==
    \/ loc = "boot" /\ loc' = "stage"
    \/ loc = "stage" /\ g.next_part # NONE /\ g'.next_part = NONE
SetupPartId == IF loc = "boot" THEN prog.scene ELSE g.next_part

\* the palette, bytecode and first video entry of a part, with the segment
\* field of Memory that setup_part sets from each
PartEntries(part_id, m) ==
    LET row == MEM_LIST_PARTS[part_id - 16000 + 1]
    IN  {<<row[1], m.seg_video_pal>>, <<row[2], m.seg_code>>, <<row[3], m.seg_video1>>}

StaysLoaded(e, samePart) ==
    /\ e.bank_num # 0
    /\ e.kind # BITMAP
    /\ samePart => e.kind \in 3..6

SamePartStep == g'.current_part = g.current_part /\ g'.fault = "none" /\ g.fault = "none"

\* C9 as stated: within a part no operation lowers data_cur
C9_Original ==
    [][SamePartStep => g'.mem.data_cur >= g.mem.data_cur]_vars

\* the kinds invalidate_res empties
Volatile(e) == e.kind <= 2 \/ e.kind > 6

RECURSIVE SumSizes(_, _)
SumSizes(m, ids) ==
    IF ids = {} THEN 0
    ELSE LET i == CHOOSE x \in ids : TRUE
         IN  m.list[i].unpacked_size + SumSizes(m, ids \ {i})

ReadyIds(m) == {i \in EntryIds : m.list[i].status = STATUS_READY}

\* C9 (amended): within a part, load_entry and same-part setup_part never
\* lower data_cur; invalidate_res is the one operation that does, and it
\* rewinds data_cur exactly to data_bak (emptying the entries of kind <= 2
\* or > 6); data_bak itself never decreases within a part.  A part change
\* restarts data_cur at 0: afterwards it is the total size of the new
\* part's loaded entries.
C9_DataCur ==
    /\ [][SamePartStep =>
            /\ g'.mem.data_bak >= g.mem.data_bak
            /\ (ReadyIds(g'.mem) \ ReadyIds(g.mem) # {} \/ SetupStep) =>
                    g'.mem.data_cur >= g.mem.data_cur
            /\ g'.mem.data_cur < g.mem.data_cur =>
                    /\ g'.mem.data_cur = g.mem.data_bak
                    /\ g'.mem.data_bak = g.mem.data_bak
                    /\ \A i \in EntryIds :
                        Volatile(g'.mem.list[i]) => g'.mem.list[i].status = STATUS_EMPTY]_vars
    /\ [][(SetupStep /\ g'.current_part # g.current_part /\ g'.fault = "none") =>
            g'.mem.data_cur = SumSizes(g'.mem, ReadyIds(g'.mem))]_vars

\* after invalidate_res in part 16001: data_cur is back at the watermark,
\* below the still Ready entry 17 that was loaded above it
C9_Witness ==
    /\ g.current_part = 16001 /\ Running
    /\ g.mem.data_bak > 0
    /\ g.mem.data_cur = g.mem.data_bak
    /\ g.mem.list[17].status = STATUS_READY
    /\ g.mem.list[17].address >= g.mem.data_cur
    /\ g.mem.list[1].status = STATUS_EMPTY /\ g.mem.list[1].address = g.mem.data_bak

OutOfArena == "assertion failed: unpacked_size <= DATA_BMP_OFFSET - data_cur"

\* C10: the growing region never reaches the bitmap scratch area: between
\* operations data_bak <= data_cur <= DATA_BMP_OFFSET and every Ready entry
\* ends at or below DATA_BMP_OFFSET; a non-bitmap load whose unpacked_size
\* exceeds DATA_BMP_OFFSET - data_cur aborts on the assertion with the entry
\* still Pending (as load_entry or setup_part marked it), its address
\* unchanged, nothing read for it and data_cur kept at or below
\* DATA_BMP_OFFSET.  data_bak <= data_cur is stated for the running program:
\* a part change resets data_cur before it loads and moves data_bak after,
\* so the process that aborts inside it dies with data_cur below data_bak.
C10_Arena ==
    /\ [](g.mem.data_cur <= DATA_BMP_OFFSET)
    /\ [](Running => /\ g.mem.data_bak <= g.mem.data_cur
                     /\ Pending(g) = {}
                     /\ \A i \in ReadyIds(g.mem) :
                            g.mem.list[i].address + g.mem.list[i].unpacked_size
                                <= DATA_BMP_OFFSET)
    /\ [][(g.fault = "none" /\ g'.fault = OutOfArena) =>
            LET n == MaxByRank(g')
                e == g'.mem.list[n]
            IN  /\ e.kind # BITMAP
                /\ e.status = STATUS_PENDING
                /\ e.unpacked_size > DATA_BMP_OFFSET - g'.mem.data_cur
                /\ e.address = g.mem.list[n].address
                /\ \A k \in 1..Len(g'.io) : g'.io[k][1] # n
                /\ ~SetupStep =>
                        /\ g'.mem.data_cur = g.mem.data_cur
                        /\ g'.io = <<>>
                        /\ \A i \in EntryIds \ {n} : g'.mem.list[i] = g.mem.list[i]]_vars
    /\ [][(g.fault = "none" /\ g'.fault = "none" /\ ~SetupStep) =>
            \A i \in ReadyIds(g'.mem) \ ReadyIds(g.mem) :
                /\ g.mem.list[i].kind # BITMAP
                /\ g.mem.list[i].unpacked_size <= DATA_BMP_OFFSET - g.mem.data_cur]_vars

\* the load of entry 17 is refused when the arena is full up to 0xF0000
C10_Witness ==
    /\ g.fault = OutOfArena
    /\ prog.list = NominalList
    /\ g.mem.data_cur = 3 * PartSize + 3 * ResSize
    /\ g.mem.list[17].status = STATUS_PENDING
    /\ g.mem.list[1].status = STATUS_READY /\ g.mem.list[1].address = g.mem.data_bak

\* entries stored with bank_num 0
Bank0Ids(m) == {i \in EntryIds : m.list[i].bank_num = 0}

\* entries the latest operation read from a bank file
ReadIds(gg) == {gg.io[k][1] : k \in 1..Len(gg.io)}

\* C11 as stated: an entry of bank 0 is reverted to Empty and never makes
\* the loader abort, whatever its unpacked_size
C11_Original ==
    [][(g.fault = "none" /\ g'.fault # "none" /\ Pending(g') # {}) =>
            MaxByRank(g') \notin Bank0Ids(g'.mem)]_vars

\* C11 (amended): a Pending entry with bank_num == 0 is never read from
\* disk; if it is a Bitmap or its unpacked_size fits below DATA_BMP_OFFSET
\* the loader reverts it to Empty (a warning), leaves its address and
\* data_cur unchanged and goes on loading the remaining Pending entries.  A
\* non-Bitmap entry of bank 0 whose unpacked_size exceeds
\* DATA_BMP_OFFSET - data_cur is fatal: the arena assertion comes before the
\* test of the bank.
C11_InvalidBank ==
    /\ [][g.fault = "none" =>
            \A i \in Bank0Ids(g.mem) :
                /\ i \notin ReadIds(g')
                /\ g'.mem.list[i].address = g.mem.list[i].address
                /\ g'.mem.list[i].status # STATUS_READY
                /\ g'.fault = "none" => g'.mem.list[i].status = STATUS_EMPTY]_vars
    /\ [][(g.fault = "none" /\ g'.fault = "none") =>
            /\ Pending(g') = {}
            /\ (g'.current_part = g.current_part /\ g'.mem.data_cur > g.mem.data_cur) =>
                    g'.mem.data_cur = g.mem.data_cur
                        + SumSizes(g'.mem, ReadyIds(g'.mem) \ ReadyIds(g.mem))
            /\ (SetupStep /\ g'.current_part # g.current_part) =>
                    LET row == MEM_LIST_PARTS[SetupPartId - 16000 + 1]
                        marked == {row[k] : k \in 1..4} \ {0}
                    IN  ReadyIds(g'.mem) =
                            {i \in marked : /\ i \notin Bank0Ids(g.mem)
                                            /\ g.mem.list[i].kind # BITMAP}]_vars
    /\ [][(g.fault = "none" /\ g'.fault # "none" /\ Pending(g') # {}) =>
            LET e == g'.mem.list[MaxByRank(g')]
            IN  e.bank_num = 0 =>
                    /\ g'.fault = OutOfArena
                    /\ e.kind # BITMAP
                    /\ e.unpacked_size > DATA_BMP_OFFSET - g'.mem.data_cur]_vars

\* part 16001 is set up from a list whose palette entry, the first the
\* loader picks, has bank 0: it is Empty and the two others were loaded
C11_Witness ==
    /\ prog.list = MkList(23, 0, 0, 0, 0)
    /\ g.current_part = 16001 /\ Running
    /\ g.mem.list[23].status = STATUS_EMPTY /\ g.mem.list[23].address = 0
    /\ g.io = <<<<25, 0>>, <<24, PartSize>>>>
    /\ g.mem.list[25].status = STATUS_READY /\ g.mem.list[24].status = STATUS_READY
    /\ g.mem.data_cur = 2 * PartSize

----------------------------------------------------------------------------
(* Properties of the audio look-ups, checked under Spec *)

\* kind of the entry a sound or a music is played from
ExpectedKind(what) == IF what = "sound" THEN 0 ELSE 1

----------------------------------------------------------------------------
(* The page translation driven directly: select_page and swap_pages called
   with every kind of page number, from the state VideoContext::new leaves *)

PageArgs == {0, 1, 2, 3, 4, 254, 255}

VideoSelectPage ==
    /\ loc = "video"
    /\ \E n \in PageArgs :
        /\ g' = [g EXCEPT !.video = select_page(@, n)]
        /\ ran' = <<"select_page", n>>
    /\ UNCHANGED <<loc, id, frame, snap, inst, prog, build, ctx, snd>>

\* id keeps the value returned
VideoSwapPages ==
    /\ loc = "video"
    /\ \E n \in PageArgs :
        /\ g' = [g EXCEPT !.video = swap_pages(@, n)]
        /\ id' = swap_pages_ret(g.video, n)
        /\ ran' = <<"swap_pages", n>>
    /\ UNCHANGED <<loc, frame, snap, inst, prog, build, ctx, snd>>

InitVideo ==
    /\ prog = Scenario(16001, <<>>)
    /\ build = "release"
    /\ g = NewGame(prog.list)
    /\ loc = "video"
    /\ id = 0
    /\ frame = 0
    /\ ran = <<>>
    /\ snap = g.vm.tasks
    /\ inst = [cur |-> NoInstall, prev |-> NoInstall, restarted |-> FALSE]
    /\ ctx = Idle
    /\ snd = Idle

NextVideo == VideoSelectPage \/ VideoSwapPages

SpecVideo == InitVideo /\ [][NextVideo]_vars

\* C13: swap_pages(0xFF) applied twice restores [work, front, back]; one
\* application exchanges front and back, leaves work unchanged and returns
\* the new front page.
C13_SwapInvolutive ==
    /\ [](loc = "video" =>
            /\ swap_pages(swap_pages(g.video, 255), 255) = g.video
            /\ swap_pages_ret(swap_pages(g.video, 255), 255) = g.video.fb_xlat[2])
    /\ [][(loc = "video" /\ ran' = <<"swap_pages", 255>>) =>
            /\ g'.video.fb_xlat[1] = g.video.fb_xlat[1]
            /\ g'.video.fb_xlat[2] = g.video.fb_xlat[3]
            /\ g'.video.fb_xlat[3] = g.video.fb_xlat[2]
            /\ id' = g'.video.fb_xlat[2]
            /\ g' = [g EXCEPT !.video.fb_xlat = g'.video.fb_xlat]]_vars

\* swap_pages(0xFF) has just exchanged three different pages' front and back
C13_Witness ==
    /\ loc = "video" /\ ran = <<"swap_pages", 255>>
    /\ g.video.fb_xlat = <<0, 3, 1>>
    /\ id = 3

----------------------------------------------------------------------------
(* The four page operations driven directly: select_page, swap_pages,
   fill_page and copy_page called in any order from the state
   VideoContext::new leaves, and the front page shown by display_surface *)

\* fill_page and copy_page calls of one run
MaxDraws == 2

FillPages == {1, 4, 254}
FillColors == {3, 32}
\* a plain page, a plain page with bit 6 and an invalid number under it, a
\* scrolled page, the work page
CopySrcs == {1, 68, 129, 254}
CopyDsts == {0, 1, 255}
VScrolls == {0, 5, -5, 200}

\* copy_page: the source bytes for which it looks at v_scroll
Scrolled(src) == src < 254 /\ BitAnd(src, 128) # 0

PageSelect == Running /\ VideoSelectPage

PageSwap == Running /\ VideoSwapPages

PageFill ==
    /\ loc = "video" /\ Running /\ frame < MaxDraws
    /\ \E n \in FillPages, color \in FillColors :
        /\ g' = fill_page(g, n, color)
        /\ ran' = <<"fill_page", n, color>>
    /\ frame' = frame + 1
    /\ UNCHANGED <<loc, id, snap, inst, prog, build, ctx, snd>>

PageCopy ==
    /\ loc = "video" /\ Running /\ frame < MaxDraws
    /\ \E src \in CopySrcs, dst \in CopyDsts :
       \E v_scroll \in (IF Scrolled(src) THEN VScrolls ELSE {0}) :
        /\ g' = copy_page(g, src, dst, v_scroll)
        /\ ran' = <<"copy_page", src, dst, v_scroll>>
    /\ frame' = frame + 1
    /\ UNCHANGED <<loc, id, snap, inst, prog, build, ctx, snd>>

\* the front page is shown
PageDisplay ==
    /\ loc = "video" /\ Running
    /\ g' = display_surface(g, g.video.fb_xlat[2])
    /\ ran' = <<"display_surface", g.video.fb_xlat[2]>>
    /\ UNCHANGED <<loc, id, frame, snap, inst, prog, build, ctx, snd>>

NextPages == PageSelect \/ PageSwap \/ PageFill \/ PageCopy \/ PageDisplay

SpecPages == InitVideo /\ [][NextPages]_vars

\* C34: whatever bytes select_page, swap_pages, fill_page and copy_page are
\* called with, the three fb_xlat slots stay in 0..=3; swap_pages(0xFE)
\* changes nothing, swap_pages(n) with n in 0..=3 sets the front slot to n and
\* nothing else, swap_pages returns the front slot it leaves, fill_page and
\* copy_page leave the slots alone, and an invalid page number translates
\* to 0.
C34_PageTranslation ==
    /\ [](loc = "video" =>
            /\ \A i \in 1..3 : g.video.fb_xlat[i] \in 0..3
            /\ \A n \in 4..253 : translate_page(g.video, n) = 0)
    /\ [][(loc = "video" /\ ran' # <<>>) =>
            /\ ran'[1] = "swap_pages" =>
                    /\ id' = g'.video.fb_xlat[2]
                    /\ ran'[2] = 254 => g' = g
                    /\ ran'[2] \in 0..3 => g' = [g EXCEPT !.video.fb_xlat[2] = ran'[2]]
            /\ ran'[1] \in {"fill_page", "copy_page", "display_surface"} =>
                    g'.video.fb_xlat = g.video.fb_xlat]_vars

\* after two draws, a selection of an invalid page and a swap, swap_pages(3)
\* has set the front slot alone
C34_Witness ==
    /\ loc = "video" /\ ran = <<"swap_pages", 3>> /\ id = 3
    /\ frame = MaxDraws
    /\ g.video.fb_xlat = <<0, 3, 2>>
    /\ g.fault = "none"

\* the rows a scroll of 5 lines tells apart, and the middle of the screen
SampleRows == {0, 4, 5, 100, 194, 195, 199}

\* the byte that begins row r of a framebuffer
RowPx(fb, r) == Px(fb, r * SCR_W)

\* a copy_page with a scrolled source between two different framebuffers has
\* just returned
ScrollCopied ==
    /\ loc = "video" /\ ran' # <<>> /\ ran'[1] = "copy_page"
    /\ Scrolled(ran'[2])
    /\ translate_page(g.video, BitAnd(ran'[2], 3)) # translate_page(g.video, ran'[3])
    /\ g'.fault = "none"

\* C35: copy_page with a scrolled source and |v_scroll| <= 199 gives
\* destination row r the source row r - v_scroll wherever both rows are on
\* the screen and leaves the other destination rows unchanged; with
\* |v_scroll| > 199 the destination is unchanged.
C35_Original ==
    [][ScrollCopied =>
        LET src == g.video.rndr.fb[translate_page(g.video, BitAnd(ran'[2], 3))]
            old == g.video.rndr.fb[translate_page(g.video, ran'[3])]
            new == g'.video.rndr.fb[translate_page(g.video, ran'[3])]
            v   == ran'[4]
        IN  \A r \in SampleRows :
                RowPx(new, r) = IF -199 <= v /\ v <= 199 /\ r - v \in 0..(SCR_H - 1)
                                THEN RowPx(src, r - v)
                                ELSE RowPx(old, r)]_vars

\* copy_page: the framebuffer its source byte names
SourceFb(v, src) ==
    IF src >= 254 THEN translate_page(v, src)
    ELSE IF BitAnd(src, 128) = 0 THEN translate_page(v, BitAnd(src, 191))
    ELSE translate_page(v, BitAnd(src, 3))

\* C36: copy_page returns normally for every pair of page arguments and every
\* translation state, and a copy whose source and destination translate to
\* the same framebuffer leaves all four framebuffers unchanged.
C36_Original ==
    [][(loc = "video" /\ ran' # <<>> /\ ran'[1] = "copy_page") =>
        /\ g'.fault = "none"
        /\ SourceFb(g.video, ran'[2]) = translate_page(g.video, ran'[3])
                => g'.video.rndr.fb = g.video.rndr.fb]_vars

\* C39: every byte of the four framebuffers is below 16 after any sequence
\* of page operations, so read_pixels never indexes the 16-entry palette out
\* of range.
C39_Original ==
    loc = "video" =>
        /\ \A fb \in 0..3 : \A o \in Cuts(g.video.rndr.fb[fb]) :
                o < FB_SIZE => Px(g.video.rndr.fb[fb], o) < 16
        /\ g.fault # "index out of bounds"

----------------------------------------------------------------------------
(* The bit unpacker driven directly: unpack called on packed regions built
   from a list of stream commands and a trailer, in both builds *)

\* longest byte string of which every value over Alphabet is an input
MaxLit == 3
Alphabet == {65, 255}

\* the n bits of v, most significant first, as rdd1bits accumulates them
NumBits(v, n) == [i \in 1..n |-> (v \div Pow2(n - i)) % 2]

\* the bits of one stream command, in the order unpack reads them
CmdBits(cmd) ==
    LET RECURSIVE bytes(_)
        bytes(bs) == IF bs = <<>> THEN <<>> ELSE NumBits(Head(bs), 8) \o bytes(Tail(bs))
    IN  CASE cmd.op = "lit" /\ Len(cmd.bytes) <= 8 ->
                <<0, 0>> \o NumBits(Len(cmd.bytes) - 1, 3) \o bytes(cmd.bytes)
          [] cmd.op = "lit" /\ Len(cmd.bytes) > 8 ->
                <<1, 1, 1>> \o NumBits(Len(cmd.bytes) - 9, 8) \o bytes(cmd.bytes)
          [] cmd.op = "copy2" -> <<0, 1>> \o NumBits(cmd.off, 8)
          [] cmd.op = "copy3" -> <<1, 0, 0>> \o NumBits(cmd.off, 9)
          [] cmd.op = "copy4" -> <<1, 0, 1>> \o NumBits(cmd.off, 10)
          [] cmd.op = "copyn" -> <<1, 1, 0>> \o NumBits(cmd.n - 1, 8) \o NumBits(cmd.off, 12)

Lit(bs) == [op |-> "lit", bytes |-> bs]
Copy(what, count, offset) == [op |-> what, n |-> count, off |-> offset]

\* the packed region of a command list: the stream words at descending
\* addresses below the trailer [bits][crc][len]; crcx is XORed into the
\* low half of the stored checksum (0 for a well-formed trailer)
Pack(cmds, len, crcx) ==
    LET RECURSIVE all(_)
        all(cs) == IF cs = <<>> THEN <<>> ELSE CmdBits(Head(cs)) \o all(Tail(cs))
        B == all(cmds)
        k == Len(B) % 32
        W == Len(B) \div 32
        at(i) == IF i <= Len(B) THEN B[i] ELSE 0
        RECURSIVE half(_, _)
        half(from, n) == IF n = 0 THEN 0 ELSE at(from + 1) + 2 * half(from + 1, n - 1)
        first == IF k < 16
                 THEN [hi |-> 0, lo |-> half(0, k) + Pow2(k)]
                 ELSE [hi |-> half(16, k - 16) + Pow2(k - 16), lo |-> half(0, 16)]
        word(j) == [hi |-> half(k + 32 * j + 16, 16), lo |-> half(k + 32 * j, 16)]
        RECURSIVE sum(_)
        sum(j) == IF j = W THEN first ELSE Xor32(word(j), sum(j + 1))
        crc == Xor32(sum(0), [hi |-> 0, lo |-> crcx])
        byte(w, i) == IF i = 0 THEN w.hi \div 256 ELSE IF i = 1 THEN w.hi % 256
                      ELSE IF i = 2 THEN w.lo \div 256 ELSE w.lo % 256
        packed_len == 4 * W + 12
        size == IF len > packed_len THEN len ELSE packed_len
    IN  [packed_len |-> packed_len,
         buf |-> [a \in 0..(size - 1) |->
                    IF a < 4 * W THEN byte(word(W - 1 - a \div 4), a % 4)
                    ELSE IF a < 4 * W + 4 THEN byte(first, a % 4)
                    ELSE IF a < 4 * W + 8 THEN byte(crc, a % 4)
                    ELSE IF a < 4 * W + 12 THEN byte([hi |-> 0, lo |-> len], a % 4)
                    ELSE 0]]

\* the literal runs that encode S, last byte first, cut into runs of the
\* given lengths
RECURSIVE LitRuns(_, _)
LitRuns(S, runs) ==
    IF runs = <<>> THEN <<>>
    ELSE LET n == Len(S)
             L == Head(runs)
         IN  <<Lit([i \in 1..L |-> S[n + 1 - i]])>>
                \o LitRuns(SubSeq(S, 1, n - L), Tail(runs))

\* byte strings with the lengths of their runs
LitInputs ==
    {<<S, <<Len(S)>>>> : S \in UNION {[1..n -> Alphabet] : n \in 1..MaxLit}}
    \cup {<<<<65, 66, 67, 68, 69, 70>>, r>> :
            r \in {<<6>>, <<3, 3>>, <<1, 5>>, <<5, 1>>, <<1, 1, 1, 1, 1, 1>>}}
    \cup {<<<<65, 66, 67, 68, 69, 70, 71, 72, 73>>, r>> : r \in {<<9>>, <<8, 1>>, <<1, 8>>}}
    \cup {<<<<65, 66, 67, 68, 69, 70, 71, 72, 73, 74>>, r>> : r \in {<<10>>, <<9, 1>>}}

\* command lists with back references, and the lengths their trailers claim
CopyInputs ==
    {<<<<Lit(<<65, 66>>), Copy(w, 3, o)>>, n>> :
        w \in {"copy2", "copy3", "copy4", "copyn"}, o \in {0, 1, 2, 255}, n \in {3, 4, 5, 6, 9}}
    \cup {<<<<Lit(<<65, 66, 67>>)>>, n>> : n \in {1, 2, 3, 4, 12}}
    \cup {<<<<Copy("copy2", 2, 1)>>, n>> : n \in {1, 2, 3}}

\* the inputs of unpack: lit tells a literal-only stream with a well-formed
\* trailer, of which S is the byte string
UnpackInputs ==
    {[in |-> Pack(LitRuns(p[1], p[2]), Len(p[1]), 0), lit |-> TRUE, S |-> p[1]] :
        p \in LitInputs}
    \cup {[in |-> Pack(p[1], p[2], x), lit |-> FALSE, S |-> <<>>] :
            p \in CopyInputs, x \in {0, 1}}
    \cup {[in |-> Pack(LitRuns(p[1], p[2]), Len(p[1]), 256), lit |-> FALSE, S |-> <<>>] :
            p \in LitInputs}

UnpackBegin ==
    /\ loc = "unpack"
    /\ ctx' = unpack_begin(prog.in.buf, prog.in.packed_len)
    /\ loc' = "loop"
    /\ UNCHANGED <<g, id, frame, ran, snap, inst, prog, build, snd>>

UnpackIter ==
    /\ loc = "loop" /\ ctx.fault = "none" /\ ctx.len > 0
    /\ ctx' = unpack_step(ctx)
    /\ UNCHANGED <<g, loc, id, frame, ran, snap, inst, prog, build, snd>>

UnpackEnd ==
    /\ loc = "loop" /\ ctx.fault = "none" /\ ctx.len = 0
    /\ ctx' = unpack_end(ctx)
    /\ loc' = IF ctx'.fault = "none" THEN "returned" ELSE "loop"
    /\ UNCHANGED <<g, id, frame, ran, snap, inst, prog, build, snd>>

InitUnpack ==
    /\ prog \in UnpackInputs
    /\ build \in {"debug", "release"}
    /\ g = NewGame(Scenario(16001, <<>>).list)
    /\ loc = "unpack"
    /\ id = 0
    /\ frame = 0
    /\ ran = <<>>
    /\ snap = g.vm.tasks
    /\ inst = [cur |-> NoInstall, prev |-> NoInstall, restarted |-> FALSE]
    /\ ctx = Idle
    /\ snd = Idle

NextUnpack == UnpackBegin \/ UnpackIter \/ UnpackEnd

\* unpack is a sequential function: it keeps taking steps until it returns
\* or panics
SpecUnpack == InitUnpack /\ [][NextUnpack]_vars /\ WF_vars(NextUnpack)

Unpacking == loc = "loop" /\ ctx.fault = "none"

\* C14: on every input with a trailer, each iteration of unpack's outer loop
\* that does not panic strictly decreases the remaining length, the loop
\* ends (by reaching 0 or by a panic), unpack returns only with remaining
\* length 0 and checksum 0, and a checksum other than 0 at the end of the
\* loop is the panic "bytekiller failure".
C14_Terminates ==
    /\ [](loc = "returned" => ctx.fault = "none" /\ ctx.len = 0 /\ ctx.crc = Zero32)
    /\ [][(Unpacking /\ ctx.len > 0)
            => (ctx'.fault # "none" \/ (ctx'.len >= 0 /\ ctx'.len < ctx.len))]_vars
    /\ [][(Unpacking /\ ctx.len = 0 /\ ctx.crc # Zero32)
            => (ctx'.fault = "bytekiller failure" /\ loc' # "returned")]_vars
    /\ <>(loc = "returned" \/ ctx.fault # "none")

\* a stream whose checksum is wrong was unpacked to its end and refused
C14_Witness ==
    /\ loc = "loop" /\ ctx.fault = "bytekiller failure"
    /\ ctx.len = 0 /\ ctx.crc = [hi |-> 0, lo |-> 256]
    /\ ~prog.lit

\* C15: unpack of a byte string S encoded as literal runs only, under a
\* well-formed trailer, does not panic and returns with buf[0..|S|) = S and
\* checksum 0.
C15_Original ==
    prog.lit =>
        /\ ctx.fault = "none"
        /\ loc = "returned" =>
            /\ \A i \in 1..Len(prog.S) : ctx.buf[i - 1] = prog.S[i]
            /\ ctx.crc = Zero32

\* the byte count the next command of the stream asks for (0 when reading
\* the command itself panics)
requested(c) ==
    Bind(next_bit(c), LAMBDA b1 :
        IF b1.c.fault # "none" THEN 0
        ELSE IF b1.bit = 0
        THEN Bind(next_bit(b1.c), LAMBDA b2 :
                IF b2.c.fault # "none" THEN 0
                ELSE IF b2.bit = 0
                THEN Bind(rdd1bits(b2.c, 3), LAMBDA r :
                        IF r.c.fault # "none" THEN 0 ELSE r.out + 1)
                ELSE 2)
        ELSE Bind(rdd1bits(b1.c, 2), LAMBDA code :
                IF code.c.fault # "none" THEN 0
                ELSE IF code.out = 0 THEN 3
                ELSE IF code.out = 1 THEN 4
                ELSE Bind(rdd1bits(code.c, 8), LAMBDA n :
                        IF n.c.fault # "none" THEN 0
                        ELSE IF code.out = 2 THEN n.out + 1 ELSE n.out + 9)))

\* C37: when a literal run or a back reference asks for more bytes than
\* remain, exactly the remaining bytes are written, at dst_pos down to
\* dst_pos - remaining + 1, the remaining length becomes 0 and no other byte
\* of the buffer changes.
C37_Original ==
    [][(Unpacking /\ ctx.len > 0 /\ requested(ctx) > ctx.len) =>
        /\ ctx'.fault = "none"
        /\ ctx'.len = 0
        /\ ctx'.dst_pos = ctx.dst_pos - ctx.len
        /\ \A a \in DOMAIN ctx.buf :
                (a <= ctx.dst_pos - ctx.len \/ a > ctx.dst_pos) => ctx'.buf[a] = ctx.buf[a]]_vars

----------------------------------------------------------------------------
(* mix_channel driven directly: one channel in every combination of sample
   bytes, volume, step and loop, mixed onto every kind of input sample *)

\* address of the samples in mem.data
PcmAt == 16

\* position in the samples up to which mix_channel is called
MaxPos == 8

Waves == {<<128, 128, 128, 128, 128, 128>>, <<127, 127, 127, 127, 127, 127>>,
          <<128, 127, 128, 127, 128, 127>>, <<0, 1, 255, 64, 192, 0>>}
Volumes == {0, 1, 63, 64, 255, 259, 32767, 32768, 65535}
InSamples == {-128, -1, 0, 1, 127}

MixChannel ==
    /\ loc = "mix" /\ g.fault = "none"
    /\ g.music.channels[0].pos.offset < MaxPos * 65536
    /\ \E in_sample \in InSamples :
        LET r == mix_channel(g, 0, in_sample)
        IN  /\ g' = r.g
            /\ ran' = IF r.g.fault = "none" THEN <<"mix_channel", in_sample, r.out>>
                      ELSE <<"mix_channel", in_sample>>
    /\ UNCHANGED <<loc, id, frame, snap, inst, prog, build, ctx, snd>>

InitMix ==
    /\ prog = Scenario(16001, <<>>)
    /\ build \in {"debug", "release"}
    /\ \E wave \in Waves, volume \in Volumes, inc \in {16384, 65536, 98304},
          len \in {2, 4}, loop_len \in {0, 2} :
        g = [NewGame(prog.list) EXCEPT
                !.mem.data = [a \in PcmAt..(PcmAt + 5) |-> wave[a - PcmAt + 1]],
                !.music.channels[0] =
                    [sample_address |-> PcmAt, sample_len |-> len,
                     sample_loop_pos |-> IF loop_len # 0 THEN len ELSE 0,
                     sample_loop_len |-> loop_len, volume |-> volume,
                     pos |-> [inc |-> inc, offset |-> 0]]]
    /\ loc = "mix"
    /\ id = 0
    /\ frame = 0
    /\ ran = <<>>
    /\ snap = g.vm.tasks
    /\ inst = [cur |-> NoInstall, prev |-> NoInstall, restarted |-> FALSE]
    /\ ctx = Idle
    /\ snd = Idle

SpecMix == InitMix /\ [][MixChannel]_vars

\* C16: whatever the channel's sample bytes, volume and position and whatever
\* the input sample in [-128, 127], a value returned by mix_channel lies in
\* [-128, 127], and 256 times it is an i16.
C16_MixBounded ==
    (loc = "mix" /\ Len(ran) = 3) =>
        /\ ran[3] >= -128 /\ ran[3] <= 127
        /\ ran[3] * 256 >= -32768 /\ ran[3] * 256 <= 32767

\* the sum of the input and the scaled sample was above 127 and was clamped
C16_Witness ==
    /\ loc = "mix" /\ ran = <<"mix_channel", 127, 127>>
    /\ g.music.channels[0].volume = 63
    /\ g.music.channels[0].pos.offset = 65536
    /\ mem_u8(g, PcmAt) = 127 /\ mem_u8(g, PcmAt + 1) = 127

----------------------------------------------------------------------------
(* process_events driven directly on a track of two rows, with two channels
   playing and one instrument *)

\* addresses of the track's patterns and of the instrument in mem.data
TrackAt == 1024
InsAt == 512

\* rows of the track that are played
MaxRows == 2

\* <<note1, note2>>: music syncs, a stop, nothing, a note of instrument 1,
\* a volume effect on instrument 1
Notes == {<<65533, 4660>>, <<65533, 32769>>, <<65534, 0>>, <<0, 0>>,
          <<256, 4096>>, <<0, 5392>>}

\* the bytes of a row of four notes at address a
RowBytes(a, notes) ==
    [b \in a..(a + 15) |->
        LET w == notes[(b - a) \div 4 + 1][((b - a) % 4) \div 2 + 1]
        IN  IF (b - a) % 2 = 0 THEN w \div 256 ELSE w % 256]

Playing(len, volume) ==
    [sample_address |-> InsAt + 8, sample_len |-> len, sample_loop_pos |-> 0,
     sample_loop_len |-> 0, volume |-> volume, pos |-> [inc |-> 16384, offset |-> 65536]]

ProcessEvents ==
    /\ loc = "events" /\ g.fault = "none"
    /\ g.music.track.cur_pos < MaxRows * 16
    /\ g' = process_events(g)
    /\ ran' = <<"process_events", row_address(g)>>
    /\ UNCHANGED <<loc, id, frame, snap, inst, prog, build, ctx, snd>>

InitEvents ==
    /\ prog = Scenario(16001, <<>>)
    /\ build \in {"debug", "release"}
    /\ \E n0 \in Notes, n1 \in Notes, n3 \in Notes :
        g = [NewGame(prog.list) EXCEPT
                !.mem.data = RowBytes(TrackAt, <<n0, n1, <<0, 0>>, <<0, 0>>>>)
                             @@ RowBytes(TrackAt + 16, <<<<0, 0>>, <<0, 0>>, <<0, 0>>, n3>>)
                             @@ (InsAt + 1 :> 4),
                !.music.delay = cvt_delay(HeaderDelay),
                !.music.track.address = TrackAt,
                !.music.track.samples[0] = [address |-> InsAt, volume |-> 40],
                !.music.channels[0] = Playing(6, 20),
                !.music.channels[1] = Playing(8, 30),
                !.music.channels[3] = Playing(8, 63)]
    /\ loc = "events"
    /\ id = 0
    /\ frame = 0
    /\ ran = <<>>
    /\ snap = g.vm.tasks
    /\ inst = [cur |-> NoInstall, prev |-> NoInstall, restarted |-> FALSE]
    /\ ctx = Idle
    /\ snd = Idle

SpecEvents == InitEvents /\ [][ProcessEvents]_vars

\* the channels whose pattern in the row at address a is a music sync
SyncChannels(gg, a) == {ch \in 0..3 : mem_u16(gg, a + ch * 4) = 65533}

\* C17: a pattern with note1 = 0xFFFD makes handle_pattern store note2, as a
\* 16-bit value, in register 0xF4 and leave every channel as it was; after
\* process_events the register holds the note2 of the row's last such
\* pattern and the channels of these patterns are unchanged; a note2 of
\* 0x1234 gives 0x1234.
C17_MusicSync ==
    /\ [](loc = "events" =>
            \A ch \in SyncChannels(g, row_address(g)) :
                LET a == row_address(g) + ch * 4
                    g1 == handle_pattern(g, ch, a)
                IN  /\ g1.vm.regs[244] = ToI16(mem_u16(g, a + 2))
                    /\ mem_u16(g, a + 2) = 4660 => g1.vm.regs[244] = 4660
                    /\ g1.music = g.music
                    /\ g1.fault = "none")
    /\ [][(loc = "events" /\ g'.fault = "none") =>
            \A ch \in SyncChannels(g, row_address(g)) :
                /\ g'.music.channels[ch] = g.music.channels[ch]
                /\ (\A c2 \in SyncChannels(g, row_address(g)) : c2 <= ch)
                    => g'.vm.regs[244] = ToI16(mem_u16(g, row_address(g) + ch * 4 + 2))]_vars

\* process_events has read the sync 0x1234 on channel 0 next to a note that
\* started channel 1
C17_Witness ==
    /\ loc = "events" /\ ran = <<"process_events", TrackAt>>
    /\ mem_u16(g, TrackAt) = 65533
    /\ g.vm.regs[244] = 4660
    /\ g.music.channels[0] = Playing(6, 20)
    /\ g.music.channels[1].sample_len = 8 /\ g.music.channels[1].volume = 40

----------------------------------------------------------------------------
(* The two threads of the music: the pause slices of op_update_display on
   the VM thread, each a produce_music in two steps (buf sized and mixed,
   then written to the ring), and the host's audio callback consume_music,
   which may run between any two of these steps.  The track is silent: its
   rows hold music syncs and empty notes only. *)

\* largest value of register 0xFF
MaxSlices == 2

\* lengths, in samples, of the stream handed to the callback
OutLens == {1024, 8192}

\* number of the pattern row that process_events reads next
RowIndex(gg) == gg.music.track.cur_order * 64 + gg.music.track.cur_pos \div 16

PauseSlice ==
    /\ loc = "slice" /\ g.fault = "none" /\ snd.slices > 0
    /\ IF g.music.delay = 0
       THEN /\ snd' = [snd EXCEPT !.slices = @ - 1]
            /\ UNCHANGED <<g, loc>>
       ELSE /\ g' = produce_mix(g)
            /\ snd' = [snd EXCEPT !.n = buf_len(g), !.made = @ + buf_len(g)]
            /\ loc' = "write"
    /\ ran' = <<"produce_music">>
    /\ UNCHANGED <<id, frame, snap, inst, prog, build, ctx>>

ProduceWrite ==
    /\ loc = "write" /\ g.fault = "none"
    /\ g' = produce_write(g, snd.n)
    /\ snd' = [snd EXCEPT !.slices = @ - 1]
    /\ loc' = "slice"
    /\ ran' = <<"write", snd.n>>
    /\ UNCHANGED <<id, frame, snap, inst, prog, build, ctx>>

\* out is what the callback left in the stream: `count` samples of the
\* ring, the first of them the `first`-th ever written, then `zeros` zeros
ConsumeMusic ==
    /\ loc \in {"slice", "write"} /\ g.fault = "none"
    /\ \E len \in OutLens :
        LET got == read_count(g.host.music_chan, len)
            count == IF got = NONE THEN 0 ELSE got
        IN  /\ g' = consume_music(g, len)
            /\ snd' = [snd EXCEPT
                        !.out = [first |-> g.host.music_chan.rd + 1, count |-> count,
                                 zeros |-> len - count],
                        !.heard = @ + count]
            /\ ran' = <<"consume_music", len>>
    /\ UNCHANGED <<loc, id, frame, snap, inst, prog, build, ctx>>

InitAudio ==
    /\ prog = Scenario(16001, <<>>)
    /\ build \in {"debug", "release"}
    /\ \E delay \in {0, HeaderDelay, 1200, 65535}, n0 \in {<<65533, 4660>>, <<0, 0>>} :
        g = [NewGame(prog.list) EXCEPT
                !.mem.data = RowBytes(TrackAt, <<n0, <<0, 0>>, <<0, 0>>, <<0, 0>>>>)
                             @@ RowBytes(TrackAt + 16, <<<<0, 0>>, <<65533, 1>>, <<0, 0>>, <<0, 0>>>>),
                !.music.delay = cvt_delay(delay),
                !.music.track.address = TrackAt]
    /\ snd \in {[fault |-> "none", slices |-> k, n |-> 0, made |-> 0, heard |-> 0,
                 out |-> [first |-> 1, count |-> 0, zeros |-> 0]] : k \in 1..MaxSlices}
    /\ loc = "slice"
    /\ id = 0
    /\ frame = 0
    /\ ran = <<>>
    /\ snap = g.vm.tasks
    /\ inst = [cur |-> NoInstall, prev |-> NoInstall, restarted |-> FALSE]
    /\ ctx = Idle

NextAudio == PauseSlice \/ ProduceWrite \/ ConsumeMusic

SpecAudio == InitAudio /\ [][NextAudio]_vars

Ring == g.host.music_chan

\* C18: under every interleaving of the producer's two steps with the
\* callback, the write puts the whole of buf into the ring, which has room
\* for it (no sample mixed is dropped, none in the ring overwritten); the
\* callback hands over the ring's oldest samples in order, each once,
\* and fills the rest of the stream with zeros, which happens only when the
\* ring holds fewer samples than the stream takes.
C18_AudioRing ==
    /\ [](loc \in {"slice", "write"} =>
            /\ g.fault = "none"
            /\ Ring.rd <= Ring.wr /\ Ring.wr - Ring.rd <= MUSIC_BUFFER_LEN
            /\ snd.heard = Ring.rd
            /\ snd.made = Ring.wr + (IF loc = "write" THEN snd.n ELSE 0)
            /\ loc = "write" => snd.n <= slots_free(Ring))
    /\ [][(loc = "write" /\ loc' = "slice") =>
            /\ Ring'.wr = Ring.wr + snd.n
            /\ Ring'.rd = Ring.rd]_vars
    /\ [][(loc \in {"slice", "write"} /\ ran'[1] = "consume_music" /\ snd' # snd) =>
            /\ snd'.out.first = snd.heard + 1
            /\ snd'.out.count + snd'.out.zeros = ran'[2]
            /\ snd'.out.zeros > 0 => snd'.out.count = Ring.wr - Ring.rd
            /\ Ring'.rd = Ring.rd + snd'.out.count
            /\ Ring'.wr = Ring.wr]_vars

\* the callback ran between the sizing of buf and its write, and later
\* found fewer samples than its stream takes
C18_Witness ==
    /\ loc = "slice" /\ ran = <<"consume_music", 8192>>
    /\ snd.slices = 0
    /\ snd.out.zeros > 0 /\ snd.out.count > 0
    /\ snd.made > MUSIC_BUFFER_LEN

\* frames per tick at the player's delay
SamplesPerTick(gg) == HOST_RATE \div (1000 \div gg.music.delay)

\* C19 as stated: a pause slice mixes exactly one tick, samples_per_tick
\* stereo frames and one process_events, while music is playing.
C19_Original ==
    [][(loc = "slice" /\ loc' = "write") =>
        /\ snd'.n = 2 * SamplesPerTick(g)
        /\ RowIndex(g') = RowIndex(g) + 1]_vars

\* C19: a pause slice, while music is playing, mixes as many stereo frames
\* as the ring has room for (half its free slots, none when it is full) and
\* runs process_events once for every tick that begins within them; it
\* writes them all; while no music is playing it does nothing.
C19_PauseSlice ==
    /\ [][(loc = "slice" /\ loc' = "write") =>
            LET frames == slots_free(Ring) \div 2
                left == g.music.samples_left
                ticks == IF frames <= left THEN 0
                         ELSE (frames - left + SamplesPerTick(g) - 1) \div SamplesPerTick(g)
            IN  /\ g.music.delay # 0
                /\ snd'.n = slots_free(Ring)
                /\ RowIndex(g') = RowIndex(g) + ticks
                /\ g'.music.samples_left =
                    IF frames <= left THEN left - frames
                    ELSE ticks * SamplesPerTick(g) - (frames - left)]_vars
    /\ [][(loc = "write" /\ loc' = "slice") =>
            /\ Ring'.wr = Ring.wr + snd.n
            /\ snd'.slices = snd.slices - 1]_vars
    /\ [][(loc = "slice" /\ loc' = "slice" /\ snd'.slices # snd.slices) =>
            /\ g.music.delay = 0
            /\ g' = g]_vars

\* the first slice filled the empty ring: 7056 frames, four ticks
C19_Witness ==
    /\ loc = "write" /\ ran = <<"produce_music">>
    /\ snd.n = MUSIC_BUFFER_LEN /\ Ring.wr = 0
    /\ g.music.delay = cvt_delay(HeaderDelay)
    /\ RowIndex(g) = 4
    /\ g.vm.regs[244] = 1

----------------------------------------------------------------------------
(* The palette *)

Pal(gg) == gg.video.current_pal_num

\* the instruction about to run is opcode op
Executing(op) == loc = "exec" /\ Running /\ ~g.vm.needs_yield /\ arg8(g, 0) = op

\* C20 as stated: the palette changes only in update-display and in the
\* setup of a part.
C20_Original ==
    [][Pal(g') # Pal(g) => (Executing(16) \/ loc \in {"boot", "stage"})]_vars

\* C20: the palette changes in update-display (to the queued next_pal), in
\* the setup of part 16009 (to 5), in a cond-jmp on register 0x67 whose jump
\* is taken into a new screen (to 8 for screen 0x47 of part 16004, to 1 for
\* screen 0x4A of part 16006), and in update-resources 0 (no palette is
\* current any more); change-pal only queues next_pal, and no other step
\* changes it.
C20_Palette ==
    /\ [][Executing(11) =>
            /\ g'.video = g.video
            /\ g'.next_pal \in {g.next_pal, arg8(g, 1)}]_vars
    /\ [][Executing(16) /\ g'.fault = "none" =>
            /\ g'.next_pal = NONE
            /\ Pal(g') = IF g.next_pal # NONE /\ g.next_pal < 32
                         THEN g.next_pal ELSE Pal(g)]_vars
    /\ [][Executing(10) =>
            Pal(g') = IF g'.screen_num = g.screen_num THEN Pal(g)
                      ELSE IF g.current_part = 16004 /\ g'.screen_num = 71 THEN 8
                      ELSE IF g.current_part = 16006 /\ g'.screen_num = 74 THEN 1
                      ELSE Pal(g)]_vars
    /\ [][Executing(25) /\ Pal(g') # Pal(g) =>
            arg16(g, 1) = 0 /\ Pal(g') = NONE]_vars
    /\ [][(Pal(g') # Pal(g) /\ loc \in {"boot", "stage"}) =>
            g'.current_part = 16009 /\ Pal(g') = 5]_vars
    /\ [][Pal(g') # Pal(g) =>
            \/ loc \in {"boot", "stage"}
            \/ \E op \in {10, 16, 25} : Executing(op)]_vars

\* the jump into screen 0x47 of part 16004 has replaced the palette that
\* update-display loaded
C20_Witness ==
    /\ loc = "exec" /\ g.current_part = 16004
    /\ g.screen_num = 71 /\ g.vm.pc = 16
    /\ Pal(g) = 8 /\ g.next_pal = NONE

----------------------------------------------------------------------------
(* Bank reads and the frame *)

\* run_tasks is about to execute an instruction of the current slice
InSlice == loc = "exec" /\ Running /\ ~g.vm.needs_yield

\* C21 as stated: no bank file is read while run_tasks executes a task.
C21_Original == [][InSlice => g'.io = <<>>]_vars

\* C21: bank files are read in part setup (restart_at at boot and in
\* stage_tasks) and, within a slice, by update-resources num with
\* 0 < num < 16000 naming an Empty entry: that instruction reads the entry's
\* bank before the next instruction of the task runs.  No other instruction
\* reads a bank.
C21_BankReads ==
    /\ [][(InSlice /\ g'.io # <<>>) =>
            /\ arg8(g, 0) = 25
            /\ arg16(g, 1) \in EntryIds
            /\ g.mem.list[arg16(g, 1)].status = STATUS_EMPTY
            /\ g'.io[1][1] = arg16(g, 1)]_vars
    /\ [][(Executing(25) /\ arg16(g, 1) \in EntryIds /\ g'.fault = "none"
              /\ g.mem.list[arg16(g, 1)].status = STATUS_EMPTY
              /\ g.mem.list[arg16(g, 1)].bank_num # 0) =>
            /\ Len(g'.io) = 1
            /\ g'.io[1][1] = arg16(g, 1)]_vars
    /\ [][(~InSlice /\ g'.io # g.io /\ g'.io # <<>>) => loc \in {"boot", "stage"}]_vars

\* task 0 of part 16001 has just read the bank of sound 1 in its slice
C21_Witness ==
    /\ loc = "exec" /\ id = 0 /\ g.current_part = 16001
    /\ g.vm.pc = 3
    /\ Len(g.io) = 1 /\ g.io[1][1] = 1
    /\ g.mem.list[1].status = STATUS_READY

----------------------------------------------------------------------------
(* fill_polygon driven directly on polygons stored in the video segment *)

\* address of the video segment holding the polygon
VideoAt == 4096

\* a polygon record as fill_polygon reads it: the two bytes of the bounding
\* box, the vertex count, and the bytes of the vertices
Shape(bbw, bbh, num, pts) == [bbw |-> bbw, bbh |-> bbh, num |-> num, pts |-> pts]

\* a strip of n vertices going down the right edge and back up the left one
Ladder(n) ==
    [k \in 1..n |-> IF k <= n \div 2 THEN <<40, k - 1>> ELSE <<0, n - k>>]

\* the quad (0,0) (40,0) (40,20) (0,20) of a 40 x 20 box
QuadAsStated == Shape(40, 20, 4, <<<<0, 0>>, <<40, 0>>, <<40, 20>>, <<0, 20>>>>)

\* the same quad listed from its top right corner, the two edges of the
\* strip going down
QuadAsStrip == Shape(40, 20, 4, <<<<40, 0>>, <<40, 20>>, <<0, 20>>, <<0, 0>>>>)

Shapes ==
    {QuadAsStated, QuadAsStrip,
     Shape(40, 20, 4, <<<<40, 20>>, <<0, 20>>, <<0, 0>>, <<40, 0>>>>),
     Shape(40, 20, 4, <<<<0, 160>>, <<0, 140>>, <<40, 140>>, <<40, 160>>>>),
     Shape(40, 20, 3, <<<<0, 0>>, <<40, 0>>, <<20, 20>>>>),
     Shape(40, 20, 255, <<>>),
     Shape(40, 20, 2, <<<<0, 0>>, <<40, 20>>>>),
     Shape(0, 1, 4, <<<<0, 0>>, <<0, 0>>, <<0, 1>>, <<0, 1>>>>),
     Shape(40, 34, 70, Ladder(70)),
     Shape(40, 35, 72, Ladder(72)),
     Shape(120, 40, 4, <<<<120, 0>>, <<120, 40>>, <<0, 40>>, <<0, 0>>>>)}

\* where the polygon is drawn: on the screen, across its right and bottom
\* borders, and off the screen
Positions == {<<30, 20>>, <<310, 190>>, <<-400, 20>>}

\* the bytes of a shape, by address
ShapeBytes(a, sh) ==
    (a :> sh.bbw) @@ (a + 1 :> sh.bbh) @@ (a + 2 :> sh.num)
        @@ [b \in (a + 3)..(a + 2 + 2 * Len(sh.pts)) |->
                sh.pts[((b - a - 3) \div 2) + 1][((b - a - 3) % 2) + 1]]

\* the framebuffer fill_polygon draws into
WorkFb == g.video.rndr.fb[g.video.fb_xlat[1]]

\* the offsets of the pixels of the work framebuffer that were written,
\* and of those that have colour c
Written ==
    UNION {WorkFb.px[k].at..(WorkFb.px[k].at + WorkFb.px[k].w - 1) :
                k \in 1..Len(WorkFb.px)}
Coloured(c) == {o \in Written : Px(WorkFb, o) = c}

FillPolygon ==
    /\ loc = "poly"
    /\ g' = fill_polygon(g, prog.x, prog.y, prog.zoom, prog.color)
    /\ loc' = "drawn"
    /\ ran' = <<"fill_polygon">>
    /\ UNCHANGED <<id, frame, snap, inst, prog, build, ctx, snd>>

InitPoly ==
    /\ build \in {"debug", "release"}
    /\ \E sh \in Shapes, at \in Positions, zoom \in {64, 128},
          color \in {7, COL_ALPHA, COL_PAGE} :
        /\ prog = [shape |-> sh, x |-> at[1], y |-> at[2], zoom |-> zoom, color |-> color]
        /\ g = [NewGame(NominalList) EXCEPT
                    !.mem.seg_video1 = VideoAt,
                    !.mem.data = ShapeBytes(VideoAt, sh)]
    /\ loc = "poly"
    /\ id = 0
    /\ frame = 0
    /\ ran = <<>>
    /\ snap = g.vm.tasks
    /\ inst = [cur |-> NoInstall, prev |-> NoInstall, restarted |-> FALSE]
    /\ ctx = Idle
    /\ snd = Idle

SpecPoly == InitPoly /\ [][FillPolygon]_vars

\* fill_polygon has fetched the vertex count of the polygon
CountRead == loc = "drawn" /\ g.video.dc >= 3

\* nothing was drawn into any framebuffer
Blank == \A k \in 0..3 : g.video.rndr.fb[k] = NewFb

\* C22 as stated: a vertex count that is odd or greater than 70 aborts.
C22_Original ==
    (CountRead /\ (prog.shape.num % 2 = 1 \/ prog.shape.num > 70)) => g.fault # "none"

\* C22: fill_polygon draws nothing for a vertex count that is odd or greater
\* than 70.  An odd count is not fatal: fill_polygon returns normally right
\* after reading it.  An even count greater than 70 is fatal: the push of
\* the 71st vertex fails its assertion.
C22_VertexCount ==
    /\ (CountRead /\ prog.shape.num % 2 = 1) =>
            (g.fault = "none" /\ Blank /\ g.video.dc = 3)
    /\ (CountRead /\ prog.shape.num % 2 = 0 /\ prog.shape.num > 70) =>
            (g.fault = "assertion failed: (left != right)" /\ Blank
                /\ g.video.dc = 3 + 2 * 71)

\* a polygon of three vertices was read and skipped
C22_Witness ==
    /\ CountRead /\ prog.shape.num = 3 /\ prog.x = 30
    /\ g.fault = "none" /\ Blank /\ g.video.dc = 3

\* the quad of the statement, centred on (30, 20): vertices (10,10) (50,10)
\* (50,30) (10,30)
AtStated(sh) ==
    /\ loc = "drawn" /\ prog.shape = sh
    /\ prog.x = 30 /\ prog.y = 20 /\ prog.zoom = 64 /\ prog.color = 7

Rect(xa, xb, ya, yb) == {y * SCR_W + x : x \in xa..xb, y \in ya..yb}

\* C23 as stated: the quad sets exactly the 861 pixels 10 <= x <= 50,
\* 10 <= y <= 30 to 7.
C23_Original ==
    AtStated(QuadAsStated) => (g.fault = "none" /\ Coloured(7) = Rect(10, 50, 10, 30))

\* C23: drawn with its vertices in the stated order the quad sets no pixel;
\* listed as a strip from the top right corner, (50,10) (50,30) (10,30)
\* (10,10), it sets exactly the 41 * 20 = 820 pixels 10 <= x <= 50,
\* 10 <= y <= 29 of the work framebuffer to 7: the row of the lower
\* vertices is not drawn.
C23_Quad ==
    /\ AtStated(QuadAsStated) => (g.fault = "none" /\ Blank)
    /\ AtStated(QuadAsStrip) =>
            /\ g.fault = "none"
            /\ Coloured(7) = Rect(10, 50, 10, 29)
            /\ Written = Coloured(7)
            /\ Cardinality(Coloured(7)) = 820
            /\ \A k \in 0..3 : k # g.video.fb_xlat[1] => g.video.rndr.fb[k] = NewFb

\* the quad listed as a strip has been drawn
C23_Witness ==
    /\ AtStated(QuadAsStrip) /\ g.fault = "none"
    /\ Cardinality(Coloured(7)) = 820
    /\ 10 * SCR_W + 10 \in Coloured(7) /\ 29 * SCR_W + 50 \in Coloured(7)
    /\ 30 * SCR_W + 10 \notin Written


----------------------------------------------------------------------------
(* The task tables between and within frames, checked under Spec *)

\* the step is a call of stage_tasks
StageStep == loc = "stage" /\ loc' = "input"

\* the live pc that stage_tasks derives from a live and a pending slot
Staged(live, pending) ==
    IF pending.pc = HALT_PC THEN live.pc
    ELSE IF pending.pc = PRE_HALT_PC THEN HALT_PC
    ELSE pending.pc

\* the tables as a restart leaves them
FreshTasks == [i \in Slots |-> IF i = 0 THEN [pc |-> 0, frozen |-> FALSE] ELSE NewTask]
FreshPending == [i \in Slots |-> NewTask]

\* C24 as stated: every stage_tasks applies the pending table it finds to
\* the live table it finds, and keeps the pending frozen flags
C24_Original ==
    [][StageStep =>
        \A i \in Slots :
            /\ g'.vm.tasks[i].frozen = g.vm.pending_tasks[i].frozen
            /\ g'.vm.tasks[i].pc = Staged(g.vm.tasks[i], g.vm.pending_tasks[i])
            /\ g'.vm.pending_tasks[i].pc = HALT_PC
            /\ g'.vm.pending_tasks[i].frozen = g.vm.pending_tasks[i].frozen]_vars

\* C24 (amended): a stage_tasks that finds no part change requested does,
\* for every slot i: live.frozen becomes pending.frozen; live.pc is
\* unchanged if pending.pc is 0xFFFF, becomes 0xFFFF if pending.pc is 0xFFFE
\* and becomes pending.pc otherwise; afterwards pending.pc is 0xFFFF and
\* pending.frozen is what it was.  A stage_tasks that finds a part change
\* requested restarts first and applies the tables of the restart: live
\* slot 0 is {pc 0, unfrozen}, every other live slot and every pending slot
\* is {pc 0xFFFF, unfrozen}, whatever the two tables held.
C24_StageTasks ==
    [][(StageStep /\ g'.fault = "none") =>
        IF g.next_part = NONE
        THEN \A i \in Slots :
                /\ g'.vm.tasks[i].frozen = g.vm.pending_tasks[i].frozen
                /\ g'.vm.tasks[i].pc = Staged(g.vm.tasks[i], g.vm.pending_tasks[i])
                /\ g'.vm.pending_tasks[i].pc = HALT_PC
                /\ g'.vm.pending_tasks[i].frozen = g.vm.pending_tasks[i].frozen
        ELSE g'.vm.tasks = FreshTasks /\ g'.vm.pending_tasks = FreshPending]_vars

\* the second stage_tasks after change-tasks(0, 3, 1): slot 2, installed and
\* frozen in the first frame, is live at 0x40 and frozen, and stays frozen
\* in the pending table; slot 5 is live at 0x40 and runs
C24_Witness ==
    /\ prog = ChangeTasks(0, 3, 1)
    /\ loc = "input" /\ frame = 2 /\ Running
    /\ g.vm.tasks[2] = [pc |-> 64, frozen |-> TRUE]
    /\ g.vm.pending_tasks[2] = [pc |-> HALT_PC, frozen |-> TRUE]
    /\ g.vm.tasks[5] = [pc |-> 64, frozen |-> FALSE]
    /\ g.vm.tasks[0] = [pc |-> 13, frozen |-> TRUE]


\* the third operand of the change-tasks about to be executed
CtAction == arg8(g, 3)

\* C25: change-tasks(begin, end, action) with begin <= (end & 0x3F) affects
\* exactly the pending slots begin..(end & 0x3F): action 0 clears their
\* pending frozen flag, action 1 sets it, action 2 sets their pending pc to
\* 0xFFFE; actions 0 and 1 leave the pending pc, action 2 leaves the pending
\* frozen flag, and slots outside the range are untouched.
C25_ChangeTasks ==
    [][(Executing(12) /\ CtBegin <= CtEnd /\ CtAction \in {0, 1, 2}) =>
        /\ g'.fault = "none"
        /\ \A i \in Slots :
            IF CtBegin <= i /\ i <= CtEnd
            THEN IF CtAction = 2
                 THEN /\ g'.vm.pending_tasks[i].pc = PRE_HALT_PC
                      /\ g'.vm.pending_tasks[i].frozen = g.vm.pending_tasks[i].frozen
                 ELSE /\ g'.vm.pending_tasks[i].frozen = (CtAction = 1)
                      /\ g'.vm.pending_tasks[i].pc = g.vm.pending_tasks[i].pc
            ELSE g'.vm.pending_tasks[i] = g.vm.pending_tasks[i]]_vars

\* task 0 is past a change-tasks(5, 0x45, 1): the range is the one slot 5,
\* which is frozen with its installed pc, and slot 2 is as it was installed
C25_Witness ==
    /\ prog = ChangeTasks(5, 69, 1)
    /\ loc = "exec" /\ Running /\ frame = 1
    /\ g.vm.pc = 12
    /\ g.vm.pending_tasks[5] = [pc |-> 64, frozen |-> TRUE]
    /\ g.vm.pending_tasks[2] = [pc |-> 64, frozen |-> FALSE]
    /\ \A i \in Slots \ {5} : ~g.vm.pending_tasks[i].frozen


\* the step begins a slice (run_tasks found a slot to run)
SliceBegins == loc = "run" /\ loc' = "exec"

\* the slot ran in the frame that is over and stopped at a yield
Yielded(i) == i \in RanSet /\ g.vm.tasks[i].pc # HALT_PC

\* C26 as stated, the yield: a task that executed yield is, at the next
\* stage_tasks, runnable at the instruction following the yield
C26_Original ==
    [][StageStep =>
        \A i \in Slots :
            Yielded(i) => g'.vm.tasks[i] = [pc |-> g.vm.tasks[i].pc, frozen |-> FALSE]]_vars

\* C26 (amended): remove-task ends the slice with pc 0xFFFF, which the end
\* of the slice stores in the live slot; a live pc of 0xFFFF changes only in
\* a stage_tasks that finds a pending pc other than 0xFFFF and 0xFFFE for
\* the slot, or in a restart (for slot 0), and no slice begins in a slot
\* whose live pc is 0xFFFF.  yield ends the slice with the pc of the
\* following instruction; the task resumes there in the next frame when the
\* next stage_tasks finds no part change requested and the pending slot
\* {pc 0xFFFF, unfrozen}: every slot that stage_tasks leaves runnable gets
\* its slice in that frame, beginning at the staged pc.
C26_RemoveYield ==
    /\ [][(Executing(17) \/ Executing(6)) =>
            /\ g'.fault = "none" /\ g'.vm.needs_yield
            /\ g'.vm.pc = IF Opcode = 17 THEN HALT_PC ELSE U16(g.vm.pc + 1)]_vars
    /\ [][(loc = "exec" /\ loc' = "run") => g'.vm.tasks[id].pc = g.vm.pc]_vars
    /\ [][\A i \in Slots :
            (g.vm.tasks[i].pc = HALT_PC /\ g'.vm.tasks[i].pc # HALT_PC) =>
                \/ loc = "boot" /\ i = 0
                \/ StageStep /\ g.next_part # NONE /\ i = 0
                \/ StageStep /\ g.next_part = NONE
                    /\ g.vm.pending_tasks[i].pc \notin {HALT_PC, PRE_HALT_PC}]_vars
    /\ [][SliceBegins =>
            /\ g.vm.tasks[id'].pc # HALT_PC
            /\ g'.vm.pc = snap[id'].pc]_vars
    /\ [][(StageStep /\ g.next_part = NONE) =>
            \A i \in Slots :
                (Yielded(i) /\ g.vm.pending_tasks[i] = NewTask)
                => g'.vm.tasks[i] = [pc |-> g.vm.tasks[i].pc, frozen |-> FALSE]]_vars
    /\ []((loc = "events" /\ Running) =>
            \A i \in Slots : WasRunnable(i) => i \in RanSet)

\* third frame of the display scenario: task 1 executed remove-task in the
\* second frame and got no slice in the third, task 0 yielded at 0x11 in
\* the second and has begun its third slice at 0x12
C26_Witness ==
    /\ prog = Display
    /\ loc = "exec" /\ frame = 3 /\ Running
    /\ ran = <<0>> /\ g.vm.pc = 18
    /\ snap[0] = [pc |-> 18, frozen |-> FALSE]
    /\ g.vm.tasks[1].pc = HALT_PC
    /\ g.vm.regs[2] = 9


\* the step executes update-resources with a part number
PartRequest == Executing(25) /\ arg16(g, 1) >= 16000

\* the segment registers of the pager
Segments(gg) ==
    <<gg.mem.seg_video_pal, gg.mem.seg_code, gg.mem.seg_video1, gg.mem.seg_video2>>

\* C27 as stated, the stage_tasks after a request: the requested part is
\* set up and the tables are those of a restart
C27_Original ==
    [][(StageStep /\ g.next_part # NONE) =>
        /\ g'.fault = "none"
        /\ g'.current_part = g.next_part
        /\ g'.vm.tasks = FreshTasks
        /\ g'.vm.pending_tasks = FreshPending]_vars

\* C27 (amended): update-resources(num >= 16000) only records num as the
\* part requested, the last request of a frame replacing the earlier ones;
\* until the next stage_tasks the current part, the segments and the pager
\* are what they were and the requesting slice goes on.  At the next
\* stage_tasks a request for a part in 16000..16009 is served: the part is
\* the current one, every live and pending slot is {pc 0xFFFF, unfrozen}
\* except live slot 0 at pc 0, the request is cleared, and only task 0
\* runs in that frame.  A request for a number above 16009 aborts that
\* stage_tasks ("invalid part").
C27_Deferred ==
    /\ [][PartRequest =>
            /\ g'.next_part = arg16(g, 1)
            /\ g'.fault = "none" /\ ~g'.vm.needs_yield
            /\ g'.vm.pc = U16(g.vm.pc + 3)
            /\ g'.current_part = g.current_part
            /\ g'.mem = g.mem
            /\ g'.vm.tasks = g.vm.tasks
            /\ g'.vm.pending_tasks = g.vm.pending_tasks
            /\ g'.vm.regs = g.vm.regs]_vars
    /\ [][(g'.next_part # g.next_part) =>
            \/ PartRequest
            \/ StageStep /\ g'.next_part = NONE]_vars
    /\ [][(g.next_part # NONE /\ ~StageStep) =>
            /\ g'.current_part = g.current_part
            /\ Segments(g') = Segments(g)]_vars
    /\ [][(StageStep /\ g.next_part # NONE) =>
            IF g.next_part \in 16000..16009
            THEN /\ g'.fault # "invalid part"
                 /\ g'.fault = "none" =>
                        /\ g'.current_part = g.next_part
                        /\ g'.vm.tasks = FreshTasks
                        /\ g'.vm.pending_tasks = FreshPending
            ELSE g'.fault = "invalid part"]_vars
    /\ []((loc = "events" /\ Running /\ inst.restarted) => ran = <<0>>)

\* the frame after task 0 of part 16001 froze slots 0..5, installed task 7
\* and requested parts 16001 and 16002, and task 1 had its slice after the
\* requests: part 16002 runs, task 0 alone, nothing is frozen or installed
C27_Witness ==
    /\ prog = PartChange(16001, 16002)
    /\ loc = "events" /\ frame = 3 /\ Running
    /\ g.current_part = 16002 /\ inst.restarted
    /\ ran = <<0>>
    /\ g.vm.regs[1] = 7 /\ g.vm.regs[2] = 5
    /\ g.vm.tasks[0] = [pc |-> 5, frozen |-> FALSE]
    /\ \A i \in Slots \ {0} : g.vm.tasks[i] = NewTask
    /\ g.vm.pending_tasks = FreshPending


----------------------------------------------------------------------------
(* The priority loader, checked under SpecMem *)

\* the k-th bank read of the step: the entry and the address it was read at
ReadNum(k) == g'.io[k][1]
ReadAt(k) == g'.io[k][2]
Rank(n) == prog.list[n].rank_num
NonBitmap(n) == prog.list[n].kind # BITMAP

\* C28 as stated: of two non-bitmap entries of different rank_num loaded by
\* one part setup, the one of larger rank_num is read first and has the
\* lower address
C28_Original ==
    [][SetupStep =>
        \A k1, k2 \in 1..Len(g'.io) :
            (/\ NonBitmap(ReadNum(k1)) /\ NonBitmap(ReadNum(k2))
             /\ Rank(ReadNum(k1)) > Rank(ReadNum(k2)))
            => k1 < k2 /\ ReadAt(k1) < ReadAt(k2)]_vars

\* C28 (amended): load_entries loads Pending entries in non-increasing
\* rank_num order: of two non-bitmap entries of different rank_num that are
\* Pending together and both loaded, the one of larger rank_num is read
\* first, at an address that is not above the other's, and strictly below
\* it when its unpacked_size is not 0; each is Ready at the address it was
\* read at.
C28_RankOrder ==
    [][SetupStep =>
        /\ \A k1, k2 \in 1..Len(g'.io) :
            (/\ NonBitmap(ReadNum(k1)) /\ NonBitmap(ReadNum(k2))
             /\ Rank(ReadNum(k1)) > Rank(ReadNum(k2)))
            => /\ k1 < k2
               /\ ReadAt(k1) <= ReadAt(k2)
               /\ prog.list[ReadNum(k1)].unpacked_size > 0 => ReadAt(k1) < ReadAt(k2)
        /\ \A k \in 1..Len(g'.io) :
            NonBitmap(ReadNum(k)) =>
                /\ g'.mem.list[ReadNum(k)].status = STATUS_READY
                /\ g'.mem.list[ReadNum(k)].address = ReadAt(k)]_vars

\* part 16002 is set up: its entries 27, 26, 28 and 17, of rank 6, 5, 3 and
\* 1, were read in that order at rising addresses
C28_Witness ==
    /\ loc = "stage" /\ Running
    /\ prog.list = NominalList
    /\ g.current_part = 16002
    /\ g.io = <<<<27, 0>>, <<26, PartSize>>, <<28, 2 * PartSize>>, <<17, 3 * PartSize>>>>
    /\ g.mem.data_cur = 4 * PartSize


----------------------------------------------------------------------------
(* load_entries turn by turn: the call made by setup_part for the start
   scene, then the calls made by load_entry for single resources *)

MaxLoads == 2
LoadScenes == {16000, 16001, 16002}
LoadNums == {1, 2, 3, 17}

Loading == loc \in {"setup", "load"}

\* setup_part up to its call of load_entries
LoadSetup ==
    /\ loc = "boot"
    /\ g' = mark_part(g, prog.scene)
    /\ loc' = "setup"
    /\ ctx' = [fault |-> "none", before |-> g']
    /\ UNCHANGED <<id, frame, ran, snap, inst, prog, build, snd>>

\* load_entries: one turn of the loop
LoadIter ==
    /\ Loading /\ Running
    /\ Pending(g) # {}
    /\ g' = load_one(g)
    /\ UNCHANGED <<loc, id, frame, ran, snap, inst, prog, build, ctx, snd>>

\* load_entries returns, to setup_part (which goes on to its end) or to
\* load_entry
LoadReturn ==
    /\ Loading /\ Running
    /\ Pending(g) = {}
    /\ g' = IF loc = "setup" THEN finish_part(g, prog.scene) ELSE g
    /\ loc' = "loaded"
    /\ UNCHANGED <<id, frame, ran, snap, inst, prog, build, ctx, snd>>

\* load_entry(num) on an Empty entry, up to its call of load_entries
LoadEntry ==
    /\ loc = "loaded" /\ frame < MaxLoads
    /\ \E num \in LoadNums :
            /\ g.mem.list[num].status = STATUS_EMPTY
            /\ g' = mark_entry(Clear(g), num)
    /\ loc' = "load"
    /\ frame' = frame + 1
    /\ ctx' = [fault |-> "none", before |-> g']
    /\ UNCHANGED <<id, ran, snap, inst, prog, build, snd>>

InitLoad ==
    /\ \E sc \in LoadScenes, l \in MemLists :
            prog = [scene |-> sc, list |-> l, code |-> <<>>]
    /\ build = "release"
    /\ g = NewGame(prog.list)
    /\ loc = "boot"
    /\ id = 0
    /\ frame = 0
    /\ ran = <<>>
    /\ snap = g.vm.tasks
    /\ inst = [cur |-> NoInstall, prev |-> NoInstall, restarted |-> FALSE]
    /\ ctx = Idle
    /\ snd = Idle

NextLoad == LoadSetup \/ LoadIter \/ LoadReturn \/ LoadEntry

\* the loop body is straight-line code: a turn that can be taken is taken
SpecLoad == InitLoad /\ [][NextLoad]_vars /\ WF_vars(LoadIter) /\ WF_vars(LoadReturn)

\* the entries that were Pending when load_entries was called
WerePending == {i \in EntryIds : ctx.before.mem.list[i].status = STATUS_PENDING}

\* C29: load_entries terminates, and when it returns no entry is Pending:
\* every entry that was Pending is Ready (not a bitmap, bank not 0, read
\* from its bank) or Empty (a bitmap or of bank 0); the entries that were
\* not Pending have the status and address they had.  (A call that does not
\* return has aborted on the arena assertion or on the slice of read_bank.)
C29_LoadEntries ==
    /\ (Loading ~> (loc = "loaded" \/ ~Running))
    /\ [](loc = "loaded" =>
            /\ Pending(g) = {}
            /\ \A i \in WerePending :
                    \/ /\ g.mem.list[i].status = STATUS_READY
                       /\ g.mem.list[i].kind # BITMAP
                       /\ g.mem.list[i].bank_num # 0
                       /\ i \in ReadIds(g)
                    \/ /\ g.mem.list[i].status = STATUS_EMPTY
                       /\ g.mem.list[i].kind = BITMAP \/ g.mem.list[i].bank_num = 0
            /\ \A i \in EntryIds \ WerePending :
                    /\ g.mem.list[i].status = ctx.before.mem.list[i].status
                    /\ g.mem.list[i].address = ctx.before.mem.list[i].address)

\* setup_part(16001) returned from load_entries with entry 0x18 of bank 0
\* Empty and the other two entries of the part Ready; then load_entry(3)
\* returned with the bitmap Empty
C29_Witness ==
    /\ loc = "loaded" /\ frame = 1
    /\ prog.scene = 16001 /\ prog.list = MkList(24, 0, 0, 0, 0)
    /\ WerePending = {3}
    /\ g.mem.list[3].status = STATUS_EMPTY
    /\ g.mem.list[24].status = STATUS_EMPTY
    /\ g.mem.list[23].status = STATUS_READY /\ g.mem.list[25].status = STATUS_READY

\* the turn of the loop loads a bitmap that has a bank
BitmapTurn ==
    /\ Loading /\ Running /\ Pending(g) # {}
    /\ g.mem.list[MaxByRank(g)].kind = BITMAP
    /\ g.mem.list[MaxByRank(g)].bank_num # 0

\* C30: loading a Bitmap entry never consumes the growing region: it is
\* read at DATA_BMP_OFFSET; data_cur, data_bak and the address of every
\* entry are unchanged; the entry ends Empty, so that no bitmap is ever
\* Ready and every load_entry on a bitmap reads it again; framebuffer 0 is
\* overwritten with its image and no other framebuffer is touched.
C30_Bitmap ==
    /\ [][(BitmapTurn /\ g'.fault = "none") =>
            LET n == MaxByRank(g)
            IN  /\ g'.io = Append(g.io, <<n, DATA_BMP_OFFSET>>)
                /\ g'.mem.data_cur = g.mem.data_cur
                /\ g'.mem.data_bak = g.mem.data_bak
                /\ \A i \in EntryIds : g'.mem.list[i].address = g.mem.list[i].address
                /\ \A i \in EntryIds \ {n} : g'.mem.list[i] = g.mem.list[i]
                /\ g'.mem.list[n].status = STATUS_EMPTY
                /\ g'.video.rndr.fb[0] = [bitmap |-> n, px |-> <<>>]
                /\ \A k \in 1..3 : g'.video.rndr.fb[k] = g.video.rndr.fb[k]]_vars
    /\ [](\A i \in EntryIds :
            g.mem.list[i].kind = BITMAP => g.mem.list[i].status # STATUS_READY)
    /\ [][(loc = "loaded" /\ loc' = "load") =>
            \A i \in Pending(g') :
                (g'.mem.list[i].kind = BITMAP /\ g'.mem.list[i].bank_num # 0)
                => BitmapTurn']_vars

\* the bitmap entry 3, loaded by the load_entry before, was loaded again by
\* this one, read at the scratch area, and the arena is as setup_part(16002)
\* left it
C30_Witness ==
    /\ loc = "loaded" /\ frame = 2
    /\ prog.scene = 16002 /\ prog.list = NominalList
    /\ WerePending = {3}
    /\ g.io = <<<<3, DATA_BMP_OFFSET>>>>
    /\ ctx.before.video.rndr.fb[0].bitmap = 3
    /\ g.video.rndr.fb[0].bitmap = 3
    /\ g.mem.list[3].status = STATUS_EMPTY
    /\ g.mem.data_cur = 4 * PartSize /\ g.mem.data_bak = 4 * PartSize


----------------------------------------------------------------------------
(* update-resources executed by a script, checked under Spec *)

\* the step executes update-resources num
Requests(num) == Executing(25) /\ arg16(g, 1) = num

\* C31: invalidate_res sets data_cur to data_bak, sets to Empty every entry
\* whose kind is <= 2 or > 6 and leaves the status and address of every
\* entry of kind 3..6 unchanged; data_bak and the four segment offsets are
\* unchanged.
C31_Invalidate ==
    [][Requests(0) =>
        /\ g'.fault = "none"
        /\ g'.mem.data_cur = g.mem.data_bak
        /\ g'.mem.data_bak = g.mem.data_bak
        /\ Segments(g') = Segments(g)
        /\ \A i \in EntryIds :
            IF Volatile(g.mem.list[i])
            THEN g'.mem.list[i].status = STATUS_EMPTY
            ELSE /\ g'.mem.list[i].status = g.mem.list[i].status
                 /\ g'.mem.list[i].address = g.mem.list[i].address]_vars

\* after the invalidation of the pager scenario in which entry 1 has kind 7:
\* entry 1 is Empty, entry 0x11 (kind 6) and the entries of the part are
\* Ready where they were, data_cur is back at data_bak
C31_Witness ==
    /\ prog = Pager(MkList(0, 0, 1, 7, 0))
    /\ loc = "exec" /\ Running /\ g.vm.pc = 15
    /\ g.mem.list[1].status = STATUS_EMPTY
    /\ g.mem.list[17].status = STATUS_READY
    /\ g.mem.list[17].address = 3 * PartSize + ResSize
    /\ g.mem.list[23].status = STATUS_READY
    /\ g.mem.data_cur = 3 * PartSize /\ g.mem.data_bak = 3 * PartSize


\* the step executes update-resources on the entry num of the memlist
Loads(num) == Requests(num) /\ num \in EntryIds

\* C32: load_entry(num) on an entry that is Ready changes nothing (no
\* status, address or data_cur, nothing read); on an Empty entry that is no
\* bitmap and has a bank it makes the entry Ready at the old data_cur and
\* advances data_cur by exactly unpacked_size, reading that one entry at
\* that address (unless the arena assertion aborts the load).
C32_LoadEntry ==
    [][\A num \in EntryIds :
        Loads(num) =>
            LET e == g.mem.list[num]
            IN  /\ e.status = STATUS_READY =>
                    /\ g'.fault = "none"
                    /\ g'.mem = g.mem
                    /\ g'.io = <<>>
                /\ (/\ e.status = STATUS_EMPTY /\ e.kind # BITMAP /\ e.bank_num # 0
                    /\ g'.fault = "none") =>
                    /\ g'.mem.list[num] =
                            [e EXCEPT !.status = STATUS_READY, !.address = g.mem.data_cur]
                    /\ g'.mem.data_cur = g.mem.data_cur + e.unpacked_size
                    /\ g'.io = <<<<num, g.mem.data_cur>>>>
                    /\ \A i \in EntryIds \ {num} : g'.mem.list[i] = g.mem.list[i]]_vars

\* the pager scenario after its second update-resources 1: the entry is
\* Ready where the first one put it and nothing was read
C32_Witness ==
    /\ prog = Pager(NominalList)
    /\ loc = "exec" /\ Running /\ g.vm.pc = 6
    /\ g.io = <<>>
    /\ g.mem.list[1].status = STATUS_READY
    /\ g.mem.list[1].address = 3 * PartSize
    /\ g.mem.data_cur = 3 * PartSize + ResSize


----------------------------------------------------------------------------
(* The arena after any sequence of pager operations, checked under SpecMem *)

\* the bytes [address, address + unpacked_size) of entry i
RegionEnd(m, i) == m.list[i].address + m.list[i].unpacked_size
Disjoint(m, i, j) ==
    RegionEnd(m, i) <= m.list[j].address \/ RegionEnd(m, j) <= m.list[i].address

\* C33 as stated: between operations every Ready entry lies wholly inside
\* [0, data_cur) and the regions of two distinct Ready entries are disjoint
C33_Original ==
    Running =>
        \A i \in ReadyIds(g.mem) :
            /\ RegionEnd(g.mem, i) <= g.mem.data_cur
            /\ \A j \in ReadyIds(g.mem) \ {i} : Disjoint(g.mem, i, j)


----------------------------------------------------------------------------
(* mix_samples driven directly on buffers of a few samples, with channel 0
   playing *)

\* calls of mix_samples of one run
MaxMixes == 2

\* lengths of `out`, in samples
OutSizes == {0, 2, 3, 6}

\* snd.raw: the samples the mixing loop stored, snd.out: the buffer when
\* mix_samples returns
MixSamples ==
    /\ loc = "out" /\ g.fault = "none" /\ frame < MaxMixes
    /\ \E n \in OutSizes :
        /\ g' = mix_samples(g, n)
        /\ snd' = [raw |-> ticks_out(g, (n \div 2) % 65536),
                   out |-> mix_samples_out(g, [i \in 1..n |-> 0])]
        /\ ran' = <<"mix_samples", n>>
    /\ frame' = frame + 1
    /\ UNCHANGED <<loc, id, snap, inst, prog, build, ctx>>

InitOut ==
    /\ prog = Scenario(16001, <<>>)
    /\ build \in {"debug", "release"}
    /\ \E wave \in Waves, volume \in {64, 255}, inc \in {16384, 65536},
          loop_len \in {0, 2}, left \in {2, 1000} :
        g = [NewGame(prog.list) EXCEPT
                !.mem.data = [a \in PcmAt..(PcmAt + 5) |-> wave[a - PcmAt + 1]],
                !.music.delay = cvt_delay(HeaderDelay),
                !.music.samples_left = left,
                !.music.channels[0] =
                    [sample_address |-> PcmAt, sample_len |-> 4,
                     sample_loop_pos |-> IF loop_len # 0 THEN 4 ELSE 0,
                     sample_loop_len |-> loop_len, volume |-> volume,
                     pos |-> [inc |-> inc, offset |-> 0]]]
    /\ loc = "out"
    /\ id = 0
    /\ frame = 0
    /\ ran = <<>>
    /\ snap = g.vm.tasks
    /\ inst = [cur |-> NoInstall, prev |-> NoInstall, restarted |-> FALSE]
    /\ ctx = Idle
    /\ snd = [raw |-> <<>>, out |-> <<>>]

SpecOut == InitOut /\ [][MixSamples]_vars

\* C38: when mix_samples returns, every sample x it mixed in this call has
\* been replaced by (x >> 1) + (p >> 1), p the sample mixed for the same side
\* of the frame before (0 for the first frame).
C38_Original ==
    (loc = "out" /\ g.fault = "none") =>
        \A i \in 1..Len(snd.raw) :
            snd.out[i] = (snd.raw[i] \div 2)
                            + (IF i > 2 THEN snd.raw[i - 2] \div 2 ELSE 0)


----------------------------------------------------------------------------
(* A note without a loop from its pattern event to the end of its sample:
   handle_pattern installs it on channel 0, then mix_channel is called with
   no further event *)

\* periods: the lowest, the last above the host rate, the first below it,
\* a middle one, the highest
FadeNotes == {55, 81, 82, 428, 4095}

\* the instrument's length word (sample_len is twice as much)
FadeWords == {1, 2, 3}

FadeInstall ==
    /\ loc = "note"
    /\ g' = handle_pattern(g, 0, TrackAt)
    /\ loc' = "fade"
    /\ ran' = <<"handle_pattern", mem_u16(g, TrackAt)>>
    /\ UNCHANGED <<id, frame, snap, inst, prog, build, ctx, snd>>

\* ran keeps the sample indices pos1 and pos2 of the call
FadeMix ==
    /\ loc = "fade" /\ g.fault = "none"
    /\ g.music.channels[0].sample_len # 0
    /\ g.music.channels[0].pos.offset < MaxPos * 65536
    /\ g' = mix_channel(g, 0, 0).g
    /\ ran' = <<"mix_channel", g.music.channels[0].pos.offset \div 65536,
                g.music.channels[0].pos.offset \div 65536 + 1>>
    /\ UNCHANGED <<loc, id, frame, snap, inst, prog, build, ctx, snd>>

InitFade ==
    /\ prog = Scenario(16001, <<>>)
    /\ build \in {"debug", "release"}
    /\ \E note1 \in FadeNotes, w \in FadeWords :
        g = [NewGame(prog.list) EXCEPT
                !.mem.data = RowBytes(TrackAt, <<<<note1, 4096>>, <<0, 0>>, <<0, 0>>, <<0, 0>>>>)
                             @@ (InsAt + 1 :> w),
                !.music.delay = cvt_delay(HeaderDelay),
                !.music.track.address = TrackAt,
                !.music.track.samples[0] = [address |-> InsAt, volume |-> 40]]
    /\ loc = "note"
    /\ id = 0
    /\ frame = 0
    /\ ran = <<>>
    /\ snap = g.vm.tasks
    /\ inst = [cur |-> NoInstall, prev |-> NoInstall, restarted |-> FALSE]
    /\ ctx = Idle
    /\ snd = Idle

NextFade == FadeInstall \/ FadeMix

\* the mixer goes on calling mix_channel
SpecFade == InitFade /\ [][NextFade]_vars /\ WF_vars(FadeInstall) /\ WF_vars(FadeMix)

\* C40: a channel that a pattern event installed with loop_len = 0,
\* sample_len > 0 and a period in 0x37..0x1000 has its sample_len set to 0 by
\* the mix_channel calls that follow, and no call before that reads a sample
\* index at or above sample_len.
C40_Original ==
    /\ [][(loc = "fade" /\ g.music.channels[0].sample_len # 0
                /\ g'.music.channels[0].sample_len # 0) =>
            /\ ran'[2] < g.music.channels[0].sample_len
            /\ ran'[3] < g.music.channels[0].sample_len]_vars
    /\ <>(loc = "fade" /\ g.music.channels[0].sample_len = 0)

====
